---- MODULE Spec2Model ----
(***************************************************************************)
(* Qsys Explorer: the type resolver and graph builder of                   *)
(* services/qsysConverter.ts, the port layout and schematic router of      *)
(* components/ElkRenderer.tsx and the application state of App (types.ts). *)
(*                                                                         *)
(* Text that the code trims, lower-cases or searches (interface types,     *)
(* connection kinds) is a sequence of one-character strings.  A reference  *)
(* string ("module.interface") is the sequence of its dot-separated        *)
(* segments, which is what String.split('.') returns: "m.a" is <<"m","a">>,*)
(* "" is <<"">>, ".a" is <<"","a">>.                                       *)
(***************************************************************************)
EXTENDS Integers, Sequences, FiniteSets, TLC

VARIABLES
    \* one call of resolveConnectionType followed by getKindColor
    tpc, connectionKind, startInterfaceType, endInterfaceType, resolvedType, color,
    \* one call of convertQsysToElk
    cpc, doc, conv,
    \* the useState cells of App
    originalGraph, layoutedGraph, loading, error, showParameters, hiddenNodeIds,
    selectedNodeId, selectedEdgeId, portOverrides, options, visibleKinds,
    \* the elk.layout promises not yet settled, oldest first
    pending,
    \* the portPositions memo of ElkRenderer
    portPositions,
    \* how many documents, rebuild requests and drag steps the user has issued
    loads, rebuilds, moves,
    \* one render of the edge layer: graph.edges, the portPositions map it is
    \* drawn against, and what renderEdge returned for each edge
    rpc, routeEdges, routeAnchors, routeDrawn,
    \* one run of the portPositions memo over a single node: the node, and the
    \* map the memo returned
    ppc, portNode, portPlaced

typeVars == <<tpc, connectionKind, startInterfaceType, endInterfaceType, resolvedType, color>>
convVars == <<cpc, doc, conv>>
inputVars == <<originalGraph, hiddenNodeIds, portOverrides, options, visibleKinds, showParameters>>
displayVars == <<layoutedGraph, portPositions>>
statusVars == <<loading, error>>
selectionVars == <<selectedNodeId, selectedEdgeId>>
budgetVars == <<loads, rebuilds, moves>>
appVars == <<inputVars, displayVars, statusVars, selectionVars, pending, budgetVars>>
routeVars == <<rpc, routeEdges, routeAnchors, routeDrawn>>
placeVars == <<ppc, portNode, portPlaced>>
vars == <<typeVars, convVars, appVars, routeVars, placeVars>>

-----------------------------------------------------------------------------
(* Bounds *)

\* spaces put on each side of an input string
MaxPad == 1
\* connection records plus interface records of a document
MaxRecords == 3
\* documents the user opens in one session
MaxLoads == 2
\* rebuild requests (hide, restore, filter, port side, options) in one session
MaxRebuilds == 1
\* drag steps in one session
MaxMoves == 1
\* edges of a graph handed to the edge layer
MaxEdges == 4
\* ports of a node handed to the port layout
MaxPorts == 3
\* elk.layout promises in flight at once
MaxInflight == 2

-----------------------------------------------------------------------------
(* Values *)

\* getAttribute() returning null, Map.get() returning undefined
NULL == <<"<null>">>
\* the second element of a destructured one-element array
UNDEF == "<undefined>"

Truthy(s) == s /= NULL /\ s /= <<>>

\* value || dflt
OrElse(s, dflt) == IF Truthy(s) THEN s ELSE dflt

UpperChars == <<"A","B","C","D","E","F","G","H","I","J","K","L","M","N","O","P","Q","R","S","T","U","V","W","X","Y","Z">>

LowerChars == <<"a","b","c","d","e","f","g","h","i","j","k","l","m","n","o","p","q","r","s","t","u","v","w","x","y","z">>

LowerChar(c) ==
    IF \E i \in 1..Len(UpperChars) : UpperChars[i] = c
    THEN LowerChars[CHOOSE i \in 1..Len(UpperChars) : UpperChars[i] = c]
    ELSE c

toLowerCase(s) == [i \in 1..Len(s) |-> LowerChar(s[i])]

IsWhite(c) == c \in {" ", "\t", "\n"}

trim(s) ==
    LET keep == {i \in 1..Len(s) : ~IsWhite(s[i])}
    IN  IF keep = {} THEN <<>>
        ELSE LET lo == CHOOSE i \in keep : \A j \in keep : i <= j
                 hi == CHOOSE i \in keep : \A j \in keep : j <= i
             IN  SubSeq(s, lo, hi)

includes(s, sub) ==
    \E i \in 0..(Len(s) - Len(sub)) : SubSeq(s, i + 1, i + Len(sub)) = sub

\* string literals of the source
S_unknown == <<"u","n","k","n","o","w","n">>
S_avalon_streaming == <<"a","v","a","l","o","n","_","s","t","r","e","a","m","i","n","g">>
S_st == <<"s","t">>
S_avalon == <<"a","v","a","l","o","n">>
S_mm == <<"m","m">>
S_clock == <<"c","l","o","c","k">>
S_reset == <<"r","e","s","e","t">>
S_conduit == <<"c","o","n","d","u","i","t">>
S_interrupt == <<"i","n","t","e","r","r","u","p","t">>
S_axi == <<"a","x","i">>
S_arrow == <<" ","-",">"," ">>

-----------------------------------------------------------------------------
(* Type resolver: services/qsysConverter.ts *)

\* getKindColor with the reset rule tried before the clock rule
getKindColor_resetFirst(kind) ==
    LET k == toLowerCase(kind)
    IN  IF includes(k, S_avalon_streaming) \/ includes(k, S_st) THEN "#22c55e"
        ELSE IF includes(k, S_avalon) \/ includes(k, S_mm) THEN "#f59e0b"
        ELSE IF includes(k, S_reset) THEN "#a855f7"
        ELSE IF includes(k, S_clock) THEN "#ef4444"
        ELSE IF includes(k, S_conduit) THEN "#64748b"
        ELSE IF includes(k, S_interrupt) THEN "#ec4899"
        ELSE "#475569"

getKindColor(kind) ==
    LET k == toLowerCase(kind)
    IN  IF includes(k, S_avalon_streaming) \/ includes(k, S_st) THEN "#22c55e"
        ELSE IF includes(k, S_avalon) \/ includes(k, S_mm) THEN "#f59e0b"
        ELSE IF includes(k, S_clock) THEN "#ef4444"
        ELSE IF includes(k, S_reset) THEN "#a855f7"
        ELSE IF includes(k, S_conduit) THEN "#64748b"
        ELSE IF includes(k, S_interrupt) THEN "#ec4899"
        ELSE "#475569"

\* normalizeType without the trim
normalizeType_noTrim(value) ==
    IF value = NULL \/ trim(value) = <<>> THEN S_unknown ELSE value

normalizeType(value) ==
    IF value = NULL THEN S_unknown
    ELSE LET trimmed == trim(value)
         IN  IF Len(trimmed) > 0 THEN trimmed ELSE S_unknown

\* resolveConnectionType returning the end type when the two types agree
resolveConnectionType_endCasing(kind, startIfType, endIfType) ==
    LET startType == normalizeType(startIfType)
        endType == normalizeType(endIfType)
    IN  IF startType /= S_unknown /\ endType /= S_unknown
        THEN IF toLowerCase(startType) = toLowerCase(endType)
             THEN endType
             ELSE startType \o S_arrow \o endType
        ELSE IF startType /= S_unknown THEN startType
        ELSE IF endType /= S_unknown THEN endType
        ELSE normalizeType(kind)

\* resolveConnectionType comparing the two types with their casing
resolveConnectionType_caseSensitive(kind, startIfType, endIfType) ==
    LET startType == normalizeType(startIfType)
        endType == normalizeType(endIfType)
    IN  IF startType /= S_unknown /\ endType /= S_unknown
        THEN IF startType = endType
             THEN startType
             ELSE endType \o S_arrow \o startType
        ELSE IF startType /= S_unknown THEN startType
        ELSE IF endType /= S_unknown THEN endType
        ELSE normalizeType(kind)

resolveConnectionType(kind, startIfType, endIfType) ==
    LET startType == normalizeType(startIfType)
        endType == normalizeType(endIfType)
    IN  IF startType /= S_unknown /\ endType /= S_unknown
        THEN IF toLowerCase(startType) = toLowerCase(endType)
             THEN startType
             ELSE startType \o S_arrow \o endType
        ELSE IF startType /= S_unknown THEN startType
        ELSE IF endType /= S_unknown THEN endType
        ELSE normalizeType(kind)

-----------------------------------------------------------------------------
(* Graph builder: convertQsysToElk, services/qsysConverter.ts:42-302 *)

\* the empty string and truthiness of a string held as its dot-separated segments
EmptyRef == <<"">>

TruthyRef(r) == r /= NULL /\ r /= EmptyRef

OrElseRef(r, dflt) == IF TruthyRef(r) THEN r ELSE dflt

\* [a, b] = str.split('.')
Seg1(r) == r[1]

Seg2(r) == IF Len(r) >= 2 THEN r[2] ELSE UNDEF

\* `${x}` in a template string
Tpl(x) == IF x = UNDEF THEN "undefined" ELSE x

\* Map.get / Map.set
MapGet(map, k) == IF k \in DOMAIN map THEN map[k] ELSE NULL

MapSet(map, k, v) == [x \in (DOMAIN map) \cup {k} |-> IF x = k THEN v ELSE map[x]]

Max(a, b) == IF a >= b THEN a ELSE b

Min(a, b) == IF a <= b THEN a ELSE b

T_external == <<"e","x","t","e","r","n","a","l">>

EXTERNAL_INPUT == "__external_input__"

EXTERNAL_OUTPUT == "__external_output__"

\* ports.find(p => p.id === id)
HasPort(node, id) == \E i \in DOMAIN node.ports : node.ports[i].id = id

\* the locals of convertQsysToElk before the first loop (lines 46-63)
ConvStart ==
    [ children |-> <<>>, edges |-> <<>>,
      moduleMap |-> <<>>, interfaceTypeMap |-> <<>>,
      connectedPortIds |-> {}, unconnectedInterfacePorts |-> <<>>,
      unconnectedFrom |-> <<>>,
      externalInputs |-> <<>>, externalOutputs |-> <<>>,
      i |-> 1 ]

\* lines 65-69: one interface element of the first pass
SetInterfaceType(st, intf) ==
    IF ~TruthyRef(intf.internal) THEN st
    ELSE [st EXCEPT !.interfaceTypeMap = MapSet(@, intf.internal, normalizeType(intf.type))]

RECURSIVE InterfaceTypes(_, _, _)
InterfaceTypes(st, interfaces, k) ==
    IF k > Len(interfaces) THEN st
    ELSE InterfaceTypes(SetInterfaceType(st, interfaces[k]), interfaces, k + 1)

\* lines 76-84
KeptParameters(mod) ==
    SelectSeq(mod.parameters, LAMBDA p : TruthyRef(p.name) /\ TruthyRef(p.value))

\* lines 72-103: one module element
AddModule(st, mod) ==
    LET name == OrElseRef(mod.name, <<"unknown">>)
        kind == OrElseRef(mod.kind, <<"component">>)
        node == [ id |-> name, width |-> 360, height |-> 120, label |-> name,
                  ports |-> <<>>, portConstraints |-> "FIXED_SIDE",
                  kind |-> kind, parameters |-> KeptParameters(mod) ]
    IN  [st EXCEPT !.moduleMap = MapSet(@, name, Len(st.children) + 1),
                   !.children = Append(@, node)]

RECURSIVE Modules(_, _, _)
Modules(st, modules, k) ==
    IF k > Len(modules) THEN st
    ELSE Modules(AddModule(st, modules[k]), modules, k + 1)

\* lines 132-142 and 146-156: the port a connection implies
ConnectionPort(id, side, intfName, clr, resolved) ==
    [ id |-> id, width |-> 22, height |-> 22, side |-> side,
      label |-> intfName, color |-> clr, internalKind |-> resolved ]

\* EnsurePort pushing only onto a node that holds no port yet
EnsurePort_firstOnly(children, n, port) ==
    IF Len(children[n].ports) > 0 THEN children
    ELSE [children EXCEPT ![n].ports = Append(@, port)]

\* lines 131-143, 145-157, 187-199: push the port unless the node holds the id
EnsurePort(children, n, port) ==
    IF HasPort(children[n], port.id) THEN children
    ELSE [children EXCEPT ![n].ports = Append(@, port)]

\* the vector flag taken from the connection kind alone
IsVector_kindOnly(qsysKind, resolved) == includes(toLowerCase(qsysKind), S_avalon)

\* line 163
IsVector(qsysKind, resolved) ==
    includes(toLowerCase(qsysKind), S_avalon) \/ includes(toLowerCase(resolved), S_axi)

\* a dropped connection still marking its two references as connected
DroppedConnection_marked(st, startStr, endStr) ==
    [st EXCEPT !.connectedPortIds = @ \cup {startStr, endStr}]

\* lines 120 and 125: the return, and the if whose body is skipped
DroppedConnection(st, startStr, endStr) == st

\* lines 106-171: one connection element; index counts connections from 0
AddConnection(st, conn, index) ==
    LET startStr == OrElseRef(conn.start, EmptyRef)
        endStr == OrElseRef(conn.end, EmptyRef)
        qsysKind == normalizeType(conn.kind)
        resolved == resolveConnectionType(conn.kind,
                        MapGet(st.interfaceTypeMap, startStr),
                        MapGet(st.interfaceTypeMap, endStr))
        clr == getKindColor(resolved)
        startMod == Seg1(startStr)
        startIntf == Seg2(startStr)
        endMod == Seg1(endStr)
        endIntf == Seg2(endStr)
    IN  IF startMod = "" \/ endMod = "" THEN DroppedConnection(st, startStr, endStr)
        ELSE IF <<startMod>> \notin DOMAIN st.moduleMap \/ <<endMod>> \notin DOMAIN st.moduleMap
        THEN DroppedConnection(st, startStr, endStr)
        ELSE
            LET sourceNode == st.moduleMap[<<startMod>>]
                targetNode == st.moduleMap[<<endMod>>]
                sourcePortId == <<startMod, Tpl(startIntf)>>
                targetPortId == <<endMod, Tpl(endIntf)>>
                withSource == EnsurePort(st.children, sourceNode,
                                  ConnectionPort(sourcePortId, "EAST", startIntf, clr, resolved))
                withTarget == EnsurePort(withSource, targetNode,
                                  ConnectionPort(targetPortId, "WEST", endIntf, clr, resolved))
                edge == [ id |-> <<"edge", index>>,
                          sources |-> <<sourcePortId>>, targets |-> <<targetPortId>>,
                          isVector |-> IsVector(qsysKind, resolved),
                          label |-> resolved, color |-> clr, type |-> resolved ]
            IN  [st EXCEPT !.connectedPortIds = @ \cup {sourcePortId, targetPortId},
                           !.children = withTarget,
                           !.edges = Append(@, edge)]

RECURSIVE Connections(_, _, _)
Connections(st, connections, k) ==
    IF k > Len(connections) THEN st
    ELSE Connections(AddConnection(st, connections[k], k - 1), connections, k + 1)

\* lines 174-211: one interface element of the second pass; k is its position
AddInterface(st, intf, k) ==
    LET internal == OrElseRef(intf.internal, EmptyRef)
        qsysKind == normalizeType(intf.type)
        dir == OrElseRef(intf.dir, <<"end">>)
        clr == getKindColor(qsysKind)
        modName == Seg1(internal)
        intfName == Seg2(internal)
    IN  IF modName = "" \/ intfName = UNDEF \/ intfName = "" THEN st
        ELSE IF <<modName>> \notin DOMAIN st.moduleMap THEN st
        ELSE
            LET node == st.moduleMap[<<modName>>]
                portId == internal
                port == [ id |-> portId, width |-> 22, height |-> 22,
                          side |-> IF dir = <<"start">> THEN "EAST" ELSE "WEST",
                          label |-> intfName, color |-> clr, internalKind |-> qsysKind ]
                withPort == [st EXCEPT !.children = EnsurePort(@, node, port)]
            IN  IF portId \in st.connectedPortIds THEN withPort
                ELSE [withPort EXCEPT
                        !.unconnectedInterfacePorts =
                            Append(@, [ portId |-> portId, label |-> intfName,
                                        kind |-> qsysKind, color |-> clr, dir |-> dir ]),
                        !.unconnectedFrom = Append(@, k)]

RECURSIVE Interfaces(_, _, _)
Interfaces(st, interfaces, k) ==
    IF k > Len(interfaces) THEN st
    ELSE Interfaces(AddInterface(st, interfaces[k], k), interfaces, k + 1)

\* lines 217-230
makeExternalNode(id, label, portCount) ==
    [ id |-> <<id>>, width |-> 300, height |-> Max(150, portCount * 30 + 80),
      label |-> label, ports |-> <<>>, portConstraints |-> "FIXED_SIDE",
      kind |-> <<"external">> ]

\* lines 241-252 and 268-279
ExternalPort(nodeId, side, intf) ==
    [ id |-> <<nodeId>> \o intf.portId, width |-> 18, height |-> 18, side |-> side,
      label |-> intf.label, color |-> intf.color, internalKind |-> intf.kind ]

\* lines 254-263
ExternalInputEdge(intf, index) ==
    [ id |-> <<"ext_in_edge", index>>,
      sources |-> << <<EXTERNAL_INPUT>> \o intf.portId >>, targets |-> <<intf.portId>>,
      label |-> T_external, color |-> intf.color, type |-> intf.kind ]

\* lines 281-290
ExternalOutputEdge(intf, index) ==
    [ id |-> <<"ext_out_edge", index>>,
      sources |-> <<intf.portId>>, targets |-> << <<EXTERNAL_OUTPUT>> \o intf.portId >>,
      label |-> T_external, color |-> intf.color, type |-> intf.kind ]

\* lines 214-215
ExternalInputsOf(unconnected) == SelectSeq(unconnected, LAMBDA intf : intf.dir /= <<"start">>)

\* the output group taken without its filter
ExternalOutputsOf_unfiltered(unconnected) == unconnected

ExternalOutputsOf(unconnected) == SelectSeq(unconnected, LAMBDA intf : intf.dir = <<"start">>)

\* lines 239-252 and 266-279: forEach pushes one port per group member
ExternalPorts(nodeId, side, group) ==
    [k \in 1..Len(group) |-> ExternalPort(nodeId, side, group[k])]

\* lines 213-295
AddExternals(st) ==
    IF Len(st.unconnectedInterfacePorts) = 0 THEN st
    ELSE
        LET externalInputs == ExternalInputsOf(st.unconnectedInterfacePorts)
            externalOutputs == ExternalOutputsOf(st.unconnectedInterfacePorts)
            inputNodes ==
                IF Len(externalInputs) > 0
                THEN << [makeExternalNode(EXTERNAL_INPUT, "External Inputs", Len(externalInputs))
                            EXCEPT !.ports = ExternalPorts(EXTERNAL_INPUT, "EAST", externalInputs)] >>
                ELSE <<>>
            outputNodes ==
                IF Len(externalOutputs) > 0
                THEN << [makeExternalNode(EXTERNAL_OUTPUT, "External Outputs", Len(externalOutputs))
                            EXCEPT !.ports = ExternalPorts(EXTERNAL_OUTPUT, "WEST", externalOutputs)] >>
                ELSE <<>>
            inputEdges == [k \in 1..Len(externalInputs) |-> ExternalInputEdge(externalInputs[k], k - 1)]
            outputEdges == [k \in 1..Len(externalOutputs) |-> ExternalOutputEdge(externalOutputs[k], k - 1)]
        IN  [st EXCEPT !.externalInputs = externalInputs,
                       !.externalOutputs = externalOutputs,
                       !.edges = @ \o inputEdges \o outputEdges,
                       !.children = @ \o inputNodes \o outputNodes]

\* the final pass using the sizing rule of the aggregators
FinalHeight_aggregatorRule(node) == Max(150, Len(node.ports) * 30 + 80)

\* line 299
FinalHeight(node) == Max(150, Len(node.ports) * 45 + 90)

\* lines 297-300
SetHeights(st) ==
    [st EXCEPT !.children = [n \in 1..Len(st.children) |->
                                [st.children[n] EXCEPT !.height = FinalHeight(st.children[n])]]]

\* line 301: the root node handed back
RootNode(st) == [ id |-> <<"root">>, children |-> st.children, edges |-> st.edges ]

\* convertQsysToElk as a function of the parsed document
convertQsysToElk(d) ==
    RootNode(SetHeights(AddExternals(
        Interfaces(
            Connections(
                Modules(InterfaceTypes(ConvStart, d.interfaces, 1), d.modules, 1),
                d.connections, 1),
            d.interfaces, 1))))

-----------------------------------------------------------------------------
(* Application state: App (types.ts)                                       *)
(*                                                                         *)
(* A useState cell that holds a graph or null is the empty sequence for    *)
(* null and a one-element sequence for a graph.                            *)

NoGraph == <<>>

K_MM == <<"A","v","a","l","o","n","-","M","M">>

K_ST == <<"A","v","a","l","o","n","-","S","T">>

K_CLOCK == <<"C","l","o","c","k">>

K_RESET == <<"R","e","s","e","t">>

K_CONDUIT == <<"C","o","n","d","u","i","t">>

K_INTR == <<"I","n","t","e","r","r","u","p","t">>

K_OTHER == <<"O","t","h","e","r">>

CONNECTION_KINDS == {K_MM, K_ST, K_CLOCK, K_RESET, K_CONDUIT, K_INTR, K_OTHER}

DefaultOptions == [ algorithm |-> "layered", direction |-> "RIGHT", routing |-> "ORTHOGONAL" ]

EmptyMap == [k \in {} |-> NULL]

\* types.ts:21-42: the initial value of every cell, nothing in flight, nothing drawn
AppStart ==
    /\ originalGraph = NoGraph
    /\ layoutedGraph = NoGraph
    /\ loading = FALSE
    /\ error = NULL
    /\ showParameters = FALSE
    /\ hiddenNodeIds = {}
    /\ selectedNodeId = NULL
    /\ selectedEdgeId = NULL
    /\ portOverrides = EmptyMap
    /\ options = DefaultOptions
    /\ visibleKinds = [k \in CONNECTION_KINDS |-> TRUE]
    /\ pending = <<>>
    /\ portPositions = EmptyMap
    /\ loads = 0
    /\ rebuilds = 0
    /\ moves = 0

\* an edge filter that looks at the kind only
EdgeKept_kindOnly(edge, visibility, hiddenIds) ==
    /\ edge.type \in DOMAIN visibility
    /\ visibility[edge.type]

\* types.ts:67-75: the edge filter of runLayout
EdgeKept(edge, visibility, hiddenIds) ==
    /\ edge.type \in DOMAIN visibility
    /\ visibility[edge.type]
    /\ <<Seg1(edge.sources[1])>> \notin hiddenIds
    /\ <<Seg1(edge.targets[1])>> \notin hiddenIds

\* types.ts:77-81
ActivePortIds(edges) ==
    {edges[k].sources[1] : k \in 1..Len(edges)} \cup {edges[k].targets[1] : k \in 1..Len(edges)}

\* types.ts:90-101: one port under the overrides
OverridePort(port, overrides) ==
    IF port.id \notin DOMAIN overrides THEN port
    ELSE IF overrides[port.id] = "AUTO" THEN [port EXCEPT !.side = UNDEF]
    ELSE [port EXCEPT !.side = overrides[port.id]]

\* types.ts:89-104
PortConstraints(ports, overrides) ==
    IF \E k \in 1..Len(ports) : ports[k].id \in DOMAIN overrides /\ overrides[ports[k].id] = "AUTO"
    THEN "FREE" ELSE "FIXED_SIDE"

\* types.ts:106-114
SizedNode(node, showParams) ==
    LET portCount == Len(node.ports)
    IN  IF showParams /\ "parameters" \in DOMAIN node
        THEN [node EXCEPT !.height = Max(210, portCount * 45 + Min(15, Len(node.parameters)) * 21 + 90),
                          !.width = 450]
        ELSE [node EXCEPT !.height = Max(150, portCount * 45 + 75),
                          !.width = 360]

\* types.ts:84-116: one kept node
PrepareNode(node, activePortIds, showParams, overrides) ==
    LET kept == IF activePortIds /= {}
                THEN SelectSeq(node.ports, LAMBDA port : port.id \in activePortIds)
                ELSE node.ports
        sided == [k \in 1..Len(kept) |-> OverridePort(kept[k], overrides)]
    IN  SizedNode([node EXCEPT !.ports = sided,
                               !.portConstraints = PortConstraints(kept, overrides)],
                  showParams)

\* types.ts:119-142: applyOptions on one node
ApplyOptions(node, opt) == [layoutOptions |-> opt] @@ node

\* types.ts:60-144: the graph runLayout hands to elk.layout
PrepareGraph(graph, opt, visibility, showParams, hiddenIds, overrides) ==
    LET children == SelectSeq(graph.children, LAMBDA node : node.id \notin hiddenIds)
        edges == SelectSeq(graph.edges, LAMBDA edge : EdgeKept(edge, visibility, hiddenIds))
        active == ActivePortIds(edges)
    IN  ApplyOptions(
            [ id |-> graph.id,
              children |-> [n \in 1..Len(children) |->
                              ApplyOptions(PrepareNode(children[n], active, showParams, overrides), opt)],
              edges |-> edges ],
            opt)

\* the placements elk.layout may return: nodes in a row in child order, or
\* in a staircase in the opposite order
Placements == {"row", "staircase"}

\* types.ts:145: the graph elk.layout resolves with; the node sizes stay as
\* they were handed in and every child gets a position
LayoutResult(g, placement) ==
    LET n == Len(g.children)
    IN  [g EXCEPT !.children =
            [i \in 1..n |->
                (IF placement = "row"
                 THEN [x |-> 12 + (i - 1) * 620, y |-> 12]
                 ELSE [x |-> 12 + (n - i) * 620, y |-> 12 + (i - 1) * 130])
                @@ g.children[i]]]

\* node.x || 0
NodeX(node) == IF "x" \in DOMAIN node THEN node.x ELSE 0

\* node.y || 0
NodeY(node) == IF "y" \in DOMAIN node THEN node.y ELSE 0

\* a map callback that forgets to compare ids
MovedNode_every(node, id, dx, dy) ==
    [x |-> NodeX(node) + dx, y |-> NodeY(node) + dy] @@ node

\* types.ts:218-223: one child under handleNodeMove
MovedNode(node, id, dx, dy) ==
    IF node.id = id
    THEN [x |-> NodeX(node) + dx, y |-> NodeY(node) + dy] @@ node
    ELSE node

\* types.ts:215-224: the updater handleNodeMove passes to setLayoutedGraph
MoveNode(prev, id, dx, dy) ==
    IF prev = NoGraph THEN prev
    ELSE << [prev[1] EXCEPT !.children =
                [n \in 1..Len(prev[1].children) |-> MovedNode(prev[1].children[n], id, dx, dy)]] >>

-----------------------------------------------------------------------------
(* Port layout and schematic router: ElkRenderer.tsx                       *)
(*                                                                         *)
(* Coordinates are exact: a drawn length is an integer number of 1/Scale   *)
(* units, where Scale is twice the least common multiple of 1..6, so that  *)
(* a spacing over n + 1 slots (n <= 5 ports on a side) and the midpoint of *)
(* two such values are integers.                                           *)

Scale == 2 * 3 * 4 * 5

\* a / b where the model requires the quotient to be exact
Exact(a, b) == CHOOSE q \in {a \div b} : q * b = a

Abs(a) == IF a < 0 THEN 0 - a ELSE a

Point(x, y) == [x |-> x, y |-> y]

\* ElkRenderer.tsx:160: the side a port is grouped under
GroupSide(port) == IF port.side = UNDEF THEN "EAST" ELSE port.side

\* ElkRenderer.tsx:158, Object.entries order
Sides == <<"WEST", "EAST", "NORTH", "SOUTH">>

\* ElkRenderer.tsx:159-162
PortsBySide(node, side) == SelectSeq(node.ports, LAMBDA port : GroupSide(port) = side)

\* ElkRenderer.tsx:176, 180, 184, 188: the slot pitch along an extent
PortSpacing(count, extent) ==
    IF count > 1 THEN Exact((extent - 20) * Scale, count + 1) ELSE Exact(extent * Scale, 2)

\* a clamp that only keeps the glyph off the near edge
Clamp_nearEdge(v, inset, extent, size) == Max(inset, v)

\* ElkRenderer.tsx:193-194, one axis
Clamp(v, inset, extent, size) == Max(inset, Min(v, extent * Scale - size * Scale - inset))

\* ElkRenderer.tsx:166-203: the entry stored for the port at index of a side
PortPosition(node, side, ports, index) ==
    LET port == ports[index + 1]
        pw == port.width
        ph == port.height
        nodeW == node.width
        nodeH == node.height
        inset == 2 * Scale
        along == IF side \in {"WEST", "EAST"}
                 THEN (index + 1) * PortSpacing(Len(ports), nodeH) - Exact(ph * Scale, 2)
                 ELSE (index + 1) * PortSpacing(Len(ports), nodeW) - Exact(pw * Scale, 2)
        adjustedX == CASE side = "WEST" -> inset
                       [] side = "EAST" -> Max(inset, nodeW * Scale - pw * Scale - inset)
                       [] OTHER -> along
        adjustedY == CASE side = "NORTH" -> inset
                       [] side = "SOUTH" -> Max(inset, nodeH * Scale - ph * Scale - inset)
                       [] OTHER -> along
    IN  [ x |-> NodeX(node) * Scale + Clamp(adjustedX, inset, nodeW, pw) + Exact(pw * Scale, 2),
          y |-> NodeY(node) * Scale + Clamp(adjustedY, inset, nodeH, ph) + Exact(ph * Scale, 2),
          side |-> side, w |-> pw, h |-> ph ]

RECURSIVE Flatten(_)
Flatten(seqs) == IF seqs = <<>> THEN <<>> ELSE Head(seqs) \o Flatten(Tail(seqs))

\* ElkRenderer.tsx:165-204: the positions.set calls of one node, in order
NodePositionEntries(node) ==
    Flatten([s \in 1..Len(Sides) |->
        LET ports == PortsBySide(node, Sides[s])
        IN  [k \in 1..Len(ports) |->
                [ id |-> ports[k].id, pos |-> PortPosition(node, Sides[s], ports, k - 1) ]]])

\* ElkRenderer.tsx:149-206: the Map the memo holds; a later set replaces an earlier one
ComputePortPositions(graph) ==
    IF graph = NoGraph THEN EmptyMap
    ELSE
        LET entries == Flatten([n \in 1..Len(graph[1].children) |->
                                    NodePositionEntries(graph[1].children[n])])
            ids == {entries[k].id : k \in 1..Len(entries)}
            last(id) == CHOOSE k \in 1..Len(entries) :
                            /\ entries[k].id = id
                            /\ \A j \in (k + 1)..Len(entries) : entries[j].id /= id
        IN  [id \in ids |-> entries[last(id)].pos]

\* the rect put with its corner, not its centre, on the stored position
RenderPortRect_corner(port, node, positions) ==
    IF port.id \in DOMAIN positions
    THEN Point(positions[port.id].x - NodeX(node) * Scale,
               positions[port.id].y - NodeY(node) * Scale)
    ELSE Point(NodeX(port) * Scale, NodeY(port) * Scale)

\* ElkRenderer.tsx:262-268: where renderPort puts the rect, in the node's frame
RenderPortRect(port, node, positions) ==
    IF port.id \in DOMAIN positions
    THEN Point(positions[port.id].x - NodeX(node) * Scale - Exact(port.width * Scale, 2),
               positions[port.id].y - NodeY(node) * Scale - Exact(port.height * Scale, 2))
    ELSE Point(NodeX(port) * Scale, NodeY(port) * Scale)

\* ElkRenderer.tsx:293-297 under the translate of 327: the centre of the rect on the canvas
GlyphCentre(port, node, positions) ==
    LET rect == RenderPortRect(port, node, positions)
    IN  Point(NodeX(node) * Scale + rect.x + Exact(port.width * Scale, 2),
              NodeY(node) * Scale + rect.y + Exact(port.height * Scale, 2))

\* ElkRenderer.tsx:209-219: edgesBySource.get(sourceId) || []
EdgesBySource(graph, sourceId) ==
    SelectSeq(graph.edges, LAMBDA edge : edge.sources[1] = sourceId)

\* ElkRenderer.tsx:227-235: the channels map after the first k edges, with
\* the offset the next edge would get
RECURSIVE ChannelsAfter(_, _, _)
ChannelsAfter(graph, positions, k) ==
    IF k = 0 THEN [channels |-> EmptyMap, channelOffset |-> 0]
    ELSE
        LET before == ChannelsAfter(graph, positions, k - 1)
            edge == graph.edges[k]
        IN  IF edge.sources[1] \in DOMAIN positions /\ edge.targets[1] \in DOMAIN positions
            THEN [channels |-> MapSet(before.channels, edge.id, before.channelOffset),
                  channelOffset |-> (before.channelOffset + 15) % 60]
            ELSE before

\* channels handed out by position in the edge list, drawn or not
WireChannels_everyEdge(graph, positions) ==
    LET routed == {k \in 1..Len(graph.edges) :
                      /\ graph.edges[k].sources[1] \in DOMAIN positions
                      /\ graph.edges[k].targets[1] \in DOMAIN positions}
    IN  [id \in {graph.edges[k].id : k \in routed} |->
            15 * (((CHOOSE k \in routed : graph.edges[k].id = id) - 1) % 4)]

\* ElkRenderer.tsx:222-237
WireChannels(graph, positions) == ChannelsAfter(graph, positions, Len(graph.edges)).channels

\* stubs with the y axis taken to point up
StubEnd_upward(p, baseOffset) ==
    CASE p.side = "EAST" -> Point(p.x + baseOffset, p.y)
      [] p.side = "WEST" -> Point(p.x - baseOffset, p.y)
      [] p.side = "NORTH" -> Point(p.x, p.y + baseOffset)
      [] p.side = "SOUTH" -> Point(p.x, p.y - baseOffset)
      [] OTHER -> Point(p.x, p.y)

\* a stub that leaves its anchor at 45 degrees
StubEnd_diagonal(p, baseOffset) == Point(p.x + baseOffset, p.y + baseOffset)

\* the stub end of an anchor, ElkRenderer.tsx:439-451
StubEnd(p, baseOffset) ==
    CASE p.side = "EAST" -> Point(p.x + baseOffset, p.y)
      [] p.side = "WEST" -> Point(p.x - baseOffset, p.y)
      [] p.side = "NORTH" -> Point(p.x, p.y - baseOffset)
      [] p.side = "SOUTH" -> Point(p.x, p.y + baseOffset)
      [] OTHER -> Point(p.x, p.y)

\* a loop that reaches no further than the stubs do
LoopOffset_stub(channel) == 40 * Scale + channel

\* ElkRenderer.tsx:476: how far the loop-around route passes the two stubs
LoopOffset(channel) == 60 * Scale + channel

\* ElkRenderer.tsx:431-517; path is the list of the M and L vertices
createSchematicPath(src, tgt, hasFanOut, edgeIndex, channelOffset) ==
    LET baseOffset == 40 * Scale
        s == StubEnd(src, baseOffset)
        t == StubEnd(tgt, baseOffset)
        sx == s.x
        sy == s.y
        tx == t.x
        ty == t.y
        dx == tx - sx
        dy == ty - sy
        channel == channelOffset * Scale
        stubJunction == IF hasFanOut /\ edgeIndex = 0 THEN <<Point(sx, sy)>> ELSE <<>>
        viaX(midX) == <<Point(midX, sy), Point(midX, ty)>>
        viaY(midY) == <<Point(sx, midY), Point(tx, midY)>>
        loopOffset == LoopOffset(channel)
        middle ==
            IF src.side = "EAST" /\ tgt.side = "WEST"
            THEN IF dx > 0
                 THEN viaX(sx + Exact(dx, 2) + channel)
                 ELSE << Point(sx + loopOffset, sy),
                         Point(sx + loopOffset, Exact(sy + ty, 2)),
                         Point(tx - loopOffset, Exact(sy + ty, 2)),
                         Point(tx - loopOffset, ty) >>
            ELSE IF src.side = "WEST" /\ tgt.side = "EAST" THEN viaX(sx + Exact(dx, 2) - channel)
            ELSE IF src.side = "SOUTH" /\ tgt.side = "NORTH" THEN viaY(sy + Exact(dy, 2) + channel)
            ELSE IF src.side = "NORTH" /\ tgt.side = "SOUTH" THEN viaY(sy + Exact(dy, 2) - channel)
            ELSE IF Abs(dx) > Abs(dy) THEN viaX(sx + Exact(dx, 2) + channel)
            ELSE viaY(sy + Exact(dy, 2) + channel)
        midJunction ==
            IF src.side = "EAST" /\ tgt.side = "WEST" /\ dx > 0 /\ hasFanOut
            THEN <<Point(sx + Exact(dx, 2) + channel, sy)>> ELSE <<>>
    IN  [ path |-> <<Point(src.x, src.y), Point(sx, sy)>> \o middle
                     \o <<Point(tx, ty), Point(tgt.x, tgt.y)>>,
          junctions |-> stubJunction \o midJunction ]

\* every edge taken for the first of its group
IndexOf_first(edges, edge) == 0

\* ElkRenderer.tsx:425: position of an edge among the edges of its source, counted from 0
IndexOf(edges, edge) == (CHOOSE k \in 1..Len(edges) : edges[k].id = edge.id) - 1

\* ElkRenderer.tsx:410-428 and 551-553: what renderEdge draws for an edge
\* whose two anchors are in the map
RenderEdge(graph, positions, edge) ==
    LET siblingEdges == EdgesBySource(graph, edge.sources[1])
        uniqueTargets == {siblingEdges[k].targets[1] : k \in 1..Len(siblingEdges)}
        channels == WireChannels(graph, positions)
        channelOffset == IF edge.id \in DOMAIN channels THEN channels[edge.id] ELSE 0
    IN  createSchematicPath(positions[edge.sources[1]], positions[edge.targets[1]],
                            Cardinality(uniqueTargets) > 1,
                            IndexOf(siblingEdges, edge), channelOffset)

\* ElkRenderer.tsx:519: the edge is routed by the schematic router
Routed(positions, edge) ==
    edge.sources[1] \in DOMAIN positions /\ edge.targets[1] \in DOMAIN positions

\* ElkRenderer.tsx:410-605: what renderEdge draws for an edge; an edge without
\* both anchors falls back to its ELK sections, of which a graph that was
\* never laid out has none
DrawEdge(graph, positions, edge) ==
    IF Routed(positions, edge) THEN RenderEdge(graph, positions, edge)
    ELSE [path |-> <<>>, junctions |-> <<>>]

-----------------------------------------------------------------------------
(* Inputs of the schematic router *)

\* an entry of the portPositions map, in canvas units
AnchorAt(x, y, side) == [x |-> x * Scale, y |-> y * Scale, side |-> side, w |-> 22, h |-> 22]

SideSet == {Sides[k] : k \in 1..Len(Sides)}

\* where a target port lies from the source port at (1000, 1000): to its
\* right, behind and below it, and exactly one pair of stubs to its right
TargetSpots == {<<1600, 1100>>, <<700, 1400>>, <<1080, 1000>>}

TargetAnchors == {AnchorAt(spot[1], spot[2], side) : spot \in TargetSpots, side \in SideSet}

\* the maps drawn against: m.a on any side, m.e on the east side below it,
\* n.b anywhere, n.c anywhere or without an entry
AnchorMaps ==
    { MapSet(MapSet(MapSet(EmptyMap, <<"m", "a">>, AnchorAt(1000, 1000, side)),
                    <<"m", "e">>, AnchorAt(1000, 1200, "EAST")),
             <<"n", "b">>, b)
        : side \in SideSet, b \in TargetAnchors }
    \cup
    { MapSet(MapSet(MapSet(MapSet(EmptyMap, <<"m", "a">>, AnchorAt(1000, 1000, side)),
                           <<"m", "e">>, AnchorAt(1000, 1200, "EAST")),
                    <<"n", "b">>, b),
             <<"n", "c">>, c)
        : side \in SideSet, b \in TargetAnchors, c \in TargetAnchors }

\* source and target of the edges a graph may hold
EdgeEnds == { <<<<"m", "a">>, <<"n", "b">>>>, <<<<"m", "a">>, <<"n", "c">>>>,
              <<<<"m", "e">>, <<"n", "b">>>> }

EdgeLists ==
    UNION { [1..n -> EdgeEnds] : n \in 0..MaxEdges }

\* the edges of a graph, numbered as the converter numbers them
EdgesOf(ends) ==
    [k \in 1..Len(ends) |->
        [id |-> <<"edge", k - 1>>, sources |-> <<ends[k][1]>>, targets |-> <<ends[k][2]>>]]

RouteIdle ==
    /\ rpc = "idle"
    /\ routeEdges = <<>>
    /\ routeAnchors = EmptyMap
    /\ routeDrawn = <<>>

InitRoute ==
    /\ rpc = "start"
    /\ routeEdges \in {EdgesOf(ends) : ends \in EdgeLists}
    /\ routeAnchors \in AnchorMaps
    /\ routeDrawn = <<>>

\* ElkRenderer.tsx:622: graph.edges.map(renderEdge)
RenderEdges ==
    /\ rpc = "start"
    /\ routeDrawn' = [k \in 1..Len(routeEdges) |->
                          DrawEdge([edges |-> routeEdges], routeAnchors, routeEdges[k])]
    /\ rpc' = "drawn"
    /\ UNCHANGED <<routeEdges, routeAnchors>>

-----------------------------------------------------------------------------
(* Inputs of the port layout *)

\* side lengths of a (square) port: the converter's 18 and 22, a port taller
\* than a node of few ports, and a port larger than any node runLayout sizes
PortSizes == {18, 22, 200, 400}

PortNames == <<"a", "b", "c", "d", "e">>

\* a node as ELK returns it: n ports of the given sizes and sides (any side
\* or none), ids distinct, sized by runLayout (types.ts:104-112), placed by ELK
NodeToPlace(n, size, side, showParams) ==
    SizedNode([id |-> <<"m">>, x |-> 100, y |-> 200, width |-> 0, height |-> 0,
               parameters |-> <<>>,
               ports |-> [k \in 1..n |-> [id |-> <<"m", PortNames[k]>>, width |-> size[k],
                                          height |-> size[k], side |-> side[k]]]],
              showParams)

PlaceIdle ==
    /\ ppc = "idle"
    /\ portNode = <<>>
    /\ portPlaced = EmptyMap

InitPlace ==
    /\ ppc = "start"
    /\ \E n \in 1..MaxPorts :
        \E size \in [1..n -> PortSizes], side \in [1..n -> SideSet \cup {UNDEF}],
           showParams \in BOOLEAN :
            portNode = <<NodeToPlace(n, size, side, showParams)>>
    /\ portPlaced = EmptyMap

\* ElkRenderer.tsx:149-206: the memo runs for a graph holding the node
PlacePorts ==
    /\ ppc = "start"
    /\ portPlaced' = ComputePortPositions(<<[children |-> portNode]>>)
    /\ ppc' = "placed"
    /\ UNCHANGED portNode

-----------------------------------------------------------------------------
(* Inputs of the type resolver *)

RECURSIVE Spaces(_)
Spaces(n) == IF n = 0 THEN <<>> ELSE <<" ">> \o Spaces(n - 1)

Padded(W) == {Spaces(n) \o w \o Spaces(n) : n \in 0..MaxPad, w \in W}

TypeWords ==
    { <<>>, S_unknown, S_clock, <<"C","l","o","c","k">>, S_reset, S_avalon,
      S_avalon_streaming, S_mm, S_conduit, S_interrupt,
      <<"a","x","i","4">>, <<"A","X","I","4">> }

KindWords ==
    { <<>>, S_unknown, S_clock, <<"A","v","a","l","o","n">>, <<"a","x","i","4">>,
      <<"r","e","s","e","t","_","c","l","o","c","k">> }

TypeInputs == Padded(TypeWords) \cup {NULL}

KindInputs == Padded(KindWords) \cup {NULL}

NoText == <<"<none>">>

TypeIdle ==
    /\ tpc = "idle"
    /\ connectionKind = NULL
    /\ startInterfaceType = NULL
    /\ endInterfaceType = NULL
    /\ resolvedType = NoText
    /\ color = "none"

InitTypes ==
    /\ tpc = "start"
    /\ connectionKind \in KindInputs
    /\ startInterfaceType \in TypeInputs
    /\ endInterfaceType \in TypeInputs
    /\ resolvedType = NoText
    /\ color = "none"

\* qsysConverter.ts:110-114
Resolve ==
    /\ tpc = "start"
    /\ resolvedType' = resolveConnectionType(connectionKind, startInterfaceType, endInterfaceType)
    /\ tpc' = "resolved"
    /\ UNCHANGED <<connectionKind, startInterfaceType, endInterfaceType, color>>

\* qsysConverter.ts:115
Classify ==
    /\ tpc = "resolved"
    /\ color' = getKindColor(resolvedType)
    /\ tpc' = "done"
    /\ UNCHANGED <<connectionKind, startInterfaceType, endInterfaceType, resolvedType>>

ConvIdle ==
    /\ cpc = "idle"
    /\ doc = <<>>
    /\ conv = <<>>

NextTypes ==
    \/ Resolve /\ UNCHANGED <<convVars, appVars, routeVars, placeVars>>
    \/ Classify /\ UNCHANGED <<convVars, appVars, routeVars, placeVars>>

InitSpecTypes == InitTypes /\ ConvIdle /\ AppStart /\ RouteIdle /\ PlaceIdle

SpecTypes == InitSpecTypes /\ [][NextTypes]_vars

-----------------------------------------------------------------------------
(* Documents handed to convertQsysToElk *)

T_Avalon == <<"A","v","a","l","o","n">>

T_AXI4 == <<"A","X","I","4">>

Module_m == [ name |-> <<"m">>, kind |-> NULL, parameters |-> <<>> ]

Module_n ==
    [ name |-> <<"n">>, kind |-> <<"altera_avalon_fifo">>,
      parameters |-> << [name |-> <<"depth">>, value |-> <<"16">>],
                        [name |-> <<"mode">>, value |-> NULL] >> ]

\* a second module element named m
Module_m2 ==
    [ name |-> <<"m">>, kind |-> <<"clock_source">>,
      parameters |-> << [name |-> <<"rate">>, value |-> <<"50">>] >> ]

\* a module element without a name
Module_unnamed == [ name |-> NULL, kind |-> NULL, parameters |-> <<>> ]

ModuleLists ==
    { <<Module_m, Module_n>>, <<Module_m, Module_n, Module_m2>>,
      <<Module_unnamed, Module_n>>, <<Module_m>> }

InterfaceVocab ==
    { [internal |-> <<"m", "a">>, type |-> S_clock, dir |-> <<"end">>],
      [internal |-> <<"m", "a">>, type |-> S_reset, dir |-> <<"start">>],
      [internal |-> <<"n", "b">>, type |-> NULL, dir |-> NULL],
      [internal |-> <<"n", "c">>, type |-> T_AXI4, dir |-> <<"start">>],
      [internal |-> <<"m">>, type |-> S_conduit, dir |-> <<"end">>],
      [internal |-> NULL, type |-> S_clock, dir |-> <<"start">>],
      [internal |-> <<"n", "d">>, type |-> S_interrupt, dir |-> <<"Start">>] }

ConnectionVocab ==
    { [start |-> <<"m", "a">>, end |-> <<"n", "b">>, kind |-> T_Avalon],
      [start |-> <<"m", "a">>, end |-> <<"n", "c">>, kind |-> NULL],
      [start |-> <<"n", "b">>, end |-> <<"m", "a">>, kind |-> S_clock],
      [start |-> NULL, end |-> <<"n", "b">>, kind |-> T_Avalon],
      [start |-> <<"m">>, end |-> <<"x", "b">>, kind |-> S_reset] }

SeqsOfLen(S, n) == [1..n -> S]

Documents ==
    { [modules |-> ms, interfaces |-> is, connections |-> cs] :
        ms \in ModuleLists,
        <<is, cs>> \in UNION { SeqsOfLen(InterfaceVocab, a) \X SeqsOfLen(ConnectionVocab, b) :
                                <<a, b>> \in {p \in (0..MaxRecords) \X (0..MaxRecords) :
                                                p[1] + p[2] <= MaxRecords} } }

InitConv ==
    /\ cpc = "interfaceTypes"
    /\ doc \in Documents
    /\ conv = ConvStart

\* lines 65-69
InterfaceTypesPass ==
    /\ cpc = "interfaceTypes"
    /\ conv' = InterfaceTypes(conv, doc.interfaces, 1)
    /\ cpc' = "modules"
    /\ UNCHANGED doc

\* lines 72-103
ModulesPass ==
    /\ cpc = "modules"
    /\ conv' = [Modules(conv, doc.modules, 1) EXCEPT !.i = 1]
    /\ cpc' = "connections"
    /\ UNCHANGED doc

\* lines 106-171, one connection
ConnectionStep ==
    /\ cpc = "connections"
    /\ conv.i <= Len(doc.connections)
    /\ conv' = [AddConnection(conv, doc.connections[conv.i], conv.i - 1) EXCEPT !.i = conv.i + 1]
    /\ UNCHANGED <<cpc, doc>>

ConnectionsDone ==
    /\ cpc = "connections"
    /\ conv.i > Len(doc.connections)
    /\ conv' = [conv EXCEPT !.i = 1]
    /\ cpc' = "interfaces"
    /\ UNCHANGED doc

\* lines 174-211, one interface
InterfaceStep ==
    /\ cpc = "interfaces"
    /\ conv.i <= Len(doc.interfaces)
    /\ conv' = [AddInterface(conv, doc.interfaces[conv.i], conv.i) EXCEPT !.i = conv.i + 1]
    /\ UNCHANGED <<cpc, doc>>

\* lines 213-295, once the interface loop has ended
ExternalsStep ==
    /\ cpc = "interfaces"
    /\ conv.i > Len(doc.interfaces)
    /\ conv' = AddExternals(conv)
    /\ cpc' = "heights"
    /\ UNCHANGED doc

\* lines 297-301
HeightsStep ==
    /\ cpc = "heights"
    /\ conv' = SetHeights(conv)
    /\ cpc' = "done"
    /\ UNCHANGED doc

NextConv ==
    \/ InterfaceTypesPass /\ UNCHANGED <<typeVars, appVars, routeVars, placeVars>>
    \/ ModulesPass /\ UNCHANGED <<typeVars, appVars, routeVars, placeVars>>
    \/ ConnectionStep /\ UNCHANGED <<typeVars, appVars, routeVars, placeVars>>
    \/ ConnectionsDone /\ UNCHANGED <<typeVars, appVars, routeVars, placeVars>>
    \/ InterfaceStep /\ UNCHANGED <<typeVars, appVars, routeVars, placeVars>>
    \/ ExternalsStep /\ UNCHANGED <<typeVars, appVars, routeVars, placeVars>>
    \/ HeightsStep /\ UNCHANGED <<typeVars, appVars, routeVars, placeVars>>

InitSpecConv == InitConv /\ TypeIdle /\ AppStart /\ RouteIdle /\ PlaceIdle

SpecConv == InitSpecConv /\ [][NextConv]_vars

\* the stepwise run ends with the value of the function
ConvAgrees == cpc = "done" => RootNode(conv) = convertQsysToElk(doc)

-----------------------------------------------------------------------------
(* The application: handlers of App (types.ts) and of ElkRenderer          *)

Interface(internal, type, dir) == [internal |-> internal, type |-> type, dir |-> dir]

Connection(start, end, kind) == [start |-> start, end |-> end, kind |-> kind]

\* a clock source m.a fanning out to n.b and n.c, and n.d left unconnected
Doc_fanout ==
    [ modules |-> <<Module_m, Module_n>>,
      interfaces |-> << Interface(<<"m", "a">>, K_CLOCK, <<"start">>),
                        Interface(<<"n", "b">>, K_CLOCK, <<"end">>),
                        Interface(<<"n", "c">>, K_CLOCK, <<"end">>),
                        Interface(<<"n", "d">>, K_CLOCK, <<"end">>) >>,
      connections |-> << Connection(<<"m", "a">>, <<"n", "b">>, S_clock),
                         Connection(<<"m", "a">>, <<"n", "c">>, S_clock) >> ]

\* n.b feeding back to m.a with lower-case types, and the unconnected m.e
\* declared twice
Doc_feedback ==
    [ modules |-> <<Module_m, Module_n>>,
      interfaces |-> << Interface(<<"n", "b">>, S_reset, <<"start">>),
                        Interface(<<"m", "a">>, S_reset, <<"end">>),
                        Interface(<<"m", "e">>, K_CLOCK, <<"start">>),
                        Interface(<<"m", "e">>, K_CLOCK, <<"start">>) >>,
      connections |-> << Connection(<<"n", "b">>, <<"m", "a">>, S_reset) >> ]

AppDocs == {Doc_fanout, Doc_feedback}

\* the canonical graphs convertQsysToElk returns for them
AppGraphs == {convertQsysToElk(d) : d \in AppDocs}

PortSides == {"AUTO", "NORTH", "SOUTH", "WEST", "EAST"}

\* two of the entries of the algorithm select
Algorithms == {"layered", "mrtree"}

ToggledKinds == {K_CLOCK, K_OTHER}

\* pointer travel of one mousemove, in canvas units
Deltas == { <<-700, 40>> }

Remove(seq, k) == [i \in 1..(Len(seq) - 1) |-> IF i < k THEN seq[i] ELSE seq[i + 1]]

ChildIds(slot) ==
    IF slot = NoGraph THEN {} ELSE {slot[1].children[n].id : n \in 1..Len(slot[1].children)}

\* the render that follows a state change: useMemo recomputes
\* portPositions from the graph prop (ElkRenderer.tsx:149-206)
Display(slot) ==
    /\ layoutedGraph' = slot
    /\ portPositions' = ComputePortPositions(slot)

\* types.ts:50-59 and 145: runLayout up to its await
RunLayout(graph, opt, visibility, showParams, hiddenIds, overrides) ==
    /\ Len(pending) < MaxInflight
    /\ loading' = TRUE
    /\ error' = NULL
    /\ pending' = Append(pending, PrepareGraph(graph, opt, visibility, showParams, hiddenIds, overrides))

\* a rebuild that filters and sizes the canonical graph itself, not a copy
Rebuild_inPlace(opt, visibility, showParams, hiddenIds, overrides) ==
    /\ IF originalGraph /= NoGraph
       THEN /\ RunLayout(originalGraph[1], opt, visibility, showParams, hiddenIds, overrides)
            /\ originalGraph' = <<PrepareGraph(originalGraph[1], opt, visibility, showParams,
                                               hiddenIds, overrides)>>
       ELSE UNCHANGED <<statusVars, pending, originalGraph>>
    /\ UNCHANGED <<displayVars, loads, moves>>

\* if (originalGraph) runLayout(originalGraph, ...)
Rebuild(opt, visibility, showParams, hiddenIds, overrides) ==
    /\ IF originalGraph /= NoGraph
       THEN RunLayout(originalGraph[1], opt, visibility, showParams, hiddenIds, overrides)
       ELSE UNCHANGED <<statusVars, pending>>
    /\ UNCHANGED <<originalGraph, displayVars, loads, moves>>

\* one more rebuild request of the session
Request ==
    /\ rebuilds < MaxRebuilds
    /\ rebuilds' = rebuilds + 1

\* types.ts:173-178 and 200-208: a parsed document becomes the canonical graph
OpenGraph(graph) ==
    /\ loads < MaxLoads
    /\ loads' = loads + 1
    /\ originalGraph' = <<graph>>
    /\ hiddenNodeIds' = {}
    /\ portOverrides' = EmptyMap
    /\ RunLayout(graph, options, visibleKinds, showParameters, {}, EmptyMap)
    /\ UNCHANGED <<options, visibleKinds, showParameters, displayVars, selectionVars, rebuilds, moves>>

\* types.ts:163-184: an update message with text
HandleMessage ==
    \E graph \in AppGraphs : OpenGraph(graph)

\* types.ts:167-172: an update message with empty text
HandleEmptyMessage ==
    /\ loads < MaxLoads
    /\ loads' = loads + 1
    /\ originalGraph' = NoGraph
    /\ Display(NoGraph)
    /\ error' = NULL
    /\ UNCHANGED <<hiddenNodeIds, portOverrides, options, visibleKinds, showParameters,
                   loading, selectionVars, pending, rebuilds, moves>>

\* types.ts:189-212: a .qsys file has been read
HandleFileUpload ==
    \E graph \in AppGraphs : OpenGraph(graph)

\* types.ts:337-340
SelectedNode ==
    IF selectedNodeId = NULL \/ layoutedGraph = NoGraph THEN <<>>
    ELSE SelectSeq(layoutedGraph[1].children, LAMBDA node : node.id = selectedNodeId)

\* types.ts:296-300, from a side button of the inspector (types.ts:509-517)
SetPortSide ==
    \E side \in PortSides :
        /\ SelectedNode /= <<>>
        /\ \E k \in 1..Len(SelectedNode[1].ports) :
            LET next == MapSet(portOverrides, SelectedNode[1].ports[k].id, side)
            IN  /\ portOverrides' = next
                /\ Request
                /\ Rebuild(options, visibleKinds, showParameters, hiddenNodeIds, next)
        /\ UNCHANGED <<hiddenNodeIds, options, visibleKinds, showParameters, selectionVars>>

\* types.ts:302-306, from the algorithm select (types.ts:398)
UpdateOptions ==
    \E algorithm \in Algorithms \ {options.algorithm} :
        LET newOptions == [options EXCEPT !.algorithm = algorithm]
        IN  /\ options' = newOptions
            /\ Request
            /\ Rebuild(newOptions, visibleKinds, showParameters, hiddenNodeIds, portOverrides)
            /\ UNCHANGED <<hiddenNodeIds, portOverrides, visibleKinds, showParameters, selectionVars>>

\* types.ts:308-310
TriggerReroute ==
    /\ Request
    /\ Rebuild(options, visibleKinds, showParameters, hiddenNodeIds, portOverrides)
    /\ UNCHANGED <<hiddenNodeIds, portOverrides, options, visibleKinds, showParameters, selectionVars>>

\* types.ts:312-316, from a filter checkbox (types.ts:435)
ToggleVisibility ==
    \E kind \in ToggledKinds :
        LET newVisibility == [visibleKinds EXCEPT ![kind] = ~visibleKinds[kind]]
        IN  /\ visibleKinds' = newVisibility
            /\ Request
            /\ Rebuild(options, newVisibility, showParameters, hiddenNodeIds, portOverrides)
            /\ UNCHANGED <<hiddenNodeIds, portOverrides, options, showParameters, selectionVars>>

\* types.ts:318-322
ToggleParameters ==
    /\ showParameters' = ~showParameters
    /\ Request
    /\ Rebuild(options, visibleKinds, ~showParameters, hiddenNodeIds, portOverrides)
    /\ UNCHANGED <<hiddenNodeIds, portOverrides, options, visibleKinds, selectionVars>>

\* types.ts:324-329, from the delete button of a drawn node (ElkRenderer.tsx:390)
HandleDeleteNode ==
    \E id \in ChildIds(layoutedGraph) :
        LET next == hiddenNodeIds \cup {id}
        IN  /\ hiddenNodeIds' = next
            /\ Request
            /\ Rebuild(options, visibleKinds, showParameters, next, portOverrides)
            /\ UNCHANGED <<portOverrides, options, visibleKinds, showParameters, selectionVars>>

\* types.ts:331-335, from the button shown while something is hidden
\* (types.ts:445); it undoes requests already counted
RestoreAllNodes ==
    /\ hiddenNodeIds /= {}
    /\ hiddenNodeIds' = {}
    /\ Rebuild(options, visibleKinds, showParameters, {}, portOverrides)
    /\ UNCHANGED <<portOverrides, options, visibleKinds, showParameters, selectionVars, rebuilds>>

\* a generation guard: only the newest call in flight may replace the display
LayoutResolved_guarded ==
    \E k \in 1..Len(pending), placement \in Placements :
        /\ IF k = Len(pending)
           THEN Display(<<LayoutResult(pending[k], placement)>>)
           ELSE UNCHANGED displayVars
        /\ loading' = FALSE
        /\ pending' = Remove(pending, k)
        /\ UNCHANGED <<inputVars, error, selectionVars, budgetVars>>

\* types.ts:145-146 and 150-152: elk.layout resolves; any promise in flight
\* may be the next to settle
LayoutResolved ==
    \E k \in 1..Len(pending), placement \in Placements :
        /\ Display(<<LayoutResult(pending[k], placement)>>)
        /\ loading' = FALSE
        /\ pending' = Remove(pending, k)
        /\ UNCHANGED <<inputVars, error, selectionVars, budgetVars>>

\* a failure that also takes the diagram down
LayoutRejected_clears ==
    \E k \in 1..Len(pending) :
        /\ error' = <<"Layout failed: ", "elk">>
        /\ loading' = FALSE
        /\ pending' = Remove(pending, k)
        /\ Display(NoGraph)
        /\ UNCHANGED <<inputVars, selectionVars, budgetVars>>

\* types.ts:147-152: elk.layout rejects
LayoutRejected ==
    \E k \in 1..Len(pending) :
        /\ error' = <<"Layout failed: ", "elk">>
        /\ loading' = FALSE
        /\ pending' = Remove(pending, k)
        /\ UNCHANGED <<inputVars, displayVars, selectionVars, budgetVars>>

\* ElkRenderer.tsx:111-127 calling types.ts:214-226: a mousemove while a
\* drawn node is held
HandleNodeMove ==
    \E id \in ChildIds(layoutedGraph), d \in Deltas :
        /\ moves < MaxMoves
        /\ moves' = moves + 1
        /\ Display(MoveNode(layoutedGraph, id, d[1], d[2]))
        /\ UNCHANGED <<inputVars, statusVars, selectionVars, pending, loads, rebuilds>>

\* ElkRenderer.tsx:129-139 calling types.ts:468-471: a node released without a move
SelectNode ==
    \E id \in ChildIds(layoutedGraph) :
        /\ selectedNodeId' = id
        /\ selectedEdgeId' = NULL
        /\ UNCHANGED <<inputVars, displayVars, statusVars, pending, budgetVars>>

\* an edge selection that leaves the node selection standing
SelectEdge_keepsNode ==
    /\ layoutedGraph /= NoGraph
    /\ \E k \in 1..Len(layoutedGraph[1].edges) :
        /\ Routed(portPositions, layoutedGraph[1].edges[k])
        /\ selectedEdgeId' = layoutedGraph[1].edges[k].id
    /\ UNCHANGED <<selectedNodeId, inputVars, displayVars, statusVars, pending, budgetVars>>

\* ElkRenderer.tsx:578-581 calling types.ts:472-475: a click on the hit area of a routed edge
SelectEdge ==
    /\ layoutedGraph /= NoGraph
    /\ \E k \in 1..Len(layoutedGraph[1].edges) :
        /\ Routed(portPositions, layoutedGraph[1].edges[k])
        /\ selectedEdgeId' = layoutedGraph[1].edges[k].id
        /\ selectedNodeId' = NULL
    /\ UNCHANGED <<inputVars, displayVars, statusVars, pending, budgetVars>>

\* ElkRenderer.tsx:141-146: a click on the canvas background
HandleSvgClick ==
    /\ layoutedGraph /= NoGraph
    /\ selectedNodeId' = NULL
    /\ selectedEdgeId' = NULL
    /\ UNCHANGED <<inputVars, displayVars, statusVars, pending, budgetVars>>

\* types.ts:488: the close button of the node inspector
CloseNodeInspector ==
    /\ SelectedNode /= <<>>
    /\ selectedNodeId' = NULL
    /\ UNCHANGED <<selectedEdgeId, inputVars, displayVars, statusVars, pending, budgetVars>>

NextApp ==
    \/ HandleMessage /\ UNCHANGED <<typeVars, convVars, routeVars, placeVars>>
    \/ HandleEmptyMessage /\ UNCHANGED <<typeVars, convVars, routeVars, placeVars>>
    \/ HandleFileUpload /\ UNCHANGED <<typeVars, convVars, routeVars, placeVars>>
    \/ SetPortSide /\ UNCHANGED <<typeVars, convVars, routeVars, placeVars>>
    \/ UpdateOptions /\ UNCHANGED <<typeVars, convVars, routeVars, placeVars>>
    \/ TriggerReroute /\ UNCHANGED <<typeVars, convVars, routeVars, placeVars>>
    \/ ToggleVisibility /\ UNCHANGED <<typeVars, convVars, routeVars, placeVars>>
    \/ ToggleParameters /\ UNCHANGED <<typeVars, convVars, routeVars, placeVars>>
    \/ HandleDeleteNode /\ UNCHANGED <<typeVars, convVars, routeVars, placeVars>>
    \/ RestoreAllNodes /\ UNCHANGED <<typeVars, convVars, routeVars, placeVars>>
    \/ LayoutResolved /\ UNCHANGED <<typeVars, convVars, routeVars, placeVars>>
    \/ LayoutRejected /\ UNCHANGED <<typeVars, convVars, routeVars, placeVars>>
    \/ HandleNodeMove /\ UNCHANGED <<typeVars, convVars, routeVars, placeVars>>
    \/ SelectNode /\ UNCHANGED <<typeVars, convVars, routeVars, placeVars>>
    \/ SelectEdge /\ UNCHANGED <<typeVars, convVars, routeVars, placeVars>>
    \/ HandleSvgClick /\ UNCHANGED <<typeVars, convVars, routeVars, placeVars>>
    \/ CloseNodeInspector /\ UNCHANGED <<typeVars, convVars, routeVars, placeVars>>

InitSpecApp == AppStart /\ TypeIdle /\ ConvIdle /\ RouteIdle /\ PlaceIdle

SpecApp == InitSpecApp /\ [][NextApp]_vars

NextRoute ==
    \/ RenderEdges /\ UNCHANGED <<typeVars, convVars, appVars, placeVars>>

InitSpecRoute == InitRoute /\ TypeIdle /\ ConvIdle /\ AppStart /\ PlaceIdle

SpecRoute == InitSpecRoute /\ [][NextRoute]_vars

NextPlace ==
    \/ PlacePorts /\ UNCHANGED <<typeVars, convVars, appVars, routeVars>>

InitSpecPlace == InitPlace /\ TypeIdle /\ ConvIdle /\ AppStart /\ RouteIdle

SpecPlace == InitSpecPlace /\ [][NextPlace]_vars

-----------------------------------------------------------------------------
(* Claims about the type resolver, checked under SpecTypes *)

\* the claims' own reading of "known": non-empty after trimming and not 'unknown'
Known(v) == v /= NULL /\ trim(v) /= <<>> /\ trim(v) /= S_unknown

SameIgnoringCase(a, b) == toLowerCase(trim(a)) = toLowerCase(trim(b))

Resolved == tpc \in {"resolved", "done"}

\* C3: when the start type and the end type are both known and equal ignoring
\* case, the resolved type is the trimmed start type in its original casing,
\* whatever the connection kind is.
C3_EqualTypesKeepStartCasing ==
    (Resolved /\ Known(startInterfaceType) /\ Known(endInterfaceType)
        /\ SameIgnoringCase(startInterfaceType, endInterfaceType))
    => resolvedType = trim(startInterfaceType)

\* C3 witness: two types that differ only in casing and padding were resolved.
C3_Witness ==
    /\ Resolved
    /\ Known(startInterfaceType) /\ Known(endInterfaceType)
    /\ SameIgnoringCase(startInterfaceType, endInterfaceType)
    /\ trim(startInterfaceType) /= trim(endInterfaceType)
    /\ startInterfaceType /= trim(startInterfaceType)
    /\ connectionKind /= NULL

\* C4: when both types are known and differ ignoring case, the resolved type is
\* the trimmed start type, " -> ", then the trimmed end type.
C4_DifferentTypesJoined ==
    (Resolved /\ Known(startInterfaceType) /\ Known(endInterfaceType)
        /\ ~SameIgnoringCase(startInterfaceType, endInterfaceType))
    => resolvedType = trim(startInterfaceType) \o <<" ", "-", ">", " ">> \o trim(endInterfaceType)

\* C4 witness: two different padded types were resolved.
C4_Witness ==
    /\ Resolved
    /\ Known(startInterfaceType) /\ Known(endInterfaceType)
    /\ ~SameIgnoringCase(startInterfaceType, endInterfaceType)
    /\ startInterfaceType /= trim(startInterfaceType)
    /\ endInterfaceType /= trim(endInterfaceType)

\* C5: with exactly one known endpoint type the resolved type is that type; with
\* none it is the trimmed connection kind, or 'unknown' when the kind is absent
\* or blank.
C5_PartialTypes ==
    Resolved =>
        /\ (Known(startInterfaceType) /\ ~Known(endInterfaceType))
            => resolvedType = trim(startInterfaceType)
        /\ (~Known(startInterfaceType) /\ Known(endInterfaceType))
            => resolvedType = trim(endInterfaceType)
        /\ (~Known(startInterfaceType) /\ ~Known(endInterfaceType))
            => resolvedType = (IF connectionKind = NULL \/ trim(connectionKind) = <<>>
                               THEN <<"u","n","k","n","o","w","n">>
                               ELSE trim(connectionKind))

\* C5 witness: no endpoint type is known and a padded kind was resolved.
C5_Witness ==
    /\ Resolved
    /\ ~Known(startInterfaceType) /\ ~Known(endInterfaceType)
    /\ startInterfaceType /= NULL
    /\ connectionKind /= NULL /\ trim(connectionKind) /= <<>>
    /\ connectionKind /= trim(connectionKind)
    /\ resolvedType = trim(connectionKind)

\* the colour rules in the order the claim lists them
ColorRules ==
    << [subs |-> {S_avalon_streaming, S_st}, color |-> "#22c55e"],
       [subs |-> {S_avalon, S_mm}, color |-> "#f59e0b"],
       [subs |-> {S_clock}, color |-> "#ef4444"],
       [subs |-> {S_reset}, color |-> "#a855f7"],
       [subs |-> {S_conduit}, color |-> "#64748b"],
       [subs |-> {S_interrupt}, color |-> "#ec4899"] >>

RuleHits(text, i) == \E sub \in ColorRules[i].subs : includes(toLowerCase(text), sub)

\* C6: the colour is that of the first rule, in the listed order, one of whose
\* substrings occurs in the lower-cased type, and #475569 when no rule hits.
C6_FirstRuleWins ==
    tpc = "done" =>
        /\ \A i \in 1..Len(ColorRules) :
            (RuleHits(resolvedType, i) /\ \A j \in 1..(i - 1) : ~RuleHits(resolvedType, j))
                => color = ColorRules[i].color
        /\ (\A i \in 1..Len(ColorRules) : ~RuleHits(resolvedType, i)) => color = "#475569"

\* C6 witness: a type in which 'reset' occurs before 'clock' was coloured by the
\* clock rule.
C6_Witness ==
    /\ tpc = "done"
    /\ RuleHits(resolvedType, 3) /\ RuleHits(resolvedType, 4)
    /\ ~RuleHits(resolvedType, 1) /\ ~RuleHits(resolvedType, 2)
    /\ SubSeq(trim(toLowerCase(resolvedType)), 1, 5) = S_reset

-----------------------------------------------------------------------------
(* Claims about the graph builder, checked under SpecConv *)

Returned == cpc = "done"

NodesOf(st) == {st.children[n] : n \in 1..Len(st.children)}

PortInGraph(st, id) == \E node \in NodesOf(st) : \E p \in DOMAIN node.ports : node.ports[p].id = id

IsConnectionEdge(e) == e.id[1] = "edge"

IsExternalEdge(e) == e.label = <<"e","x","t","e","r","n","a","l">>

\* C1: in the returned graph the source port id and the target port id of every
\* edge, connection edge or 'external' edge, are ids of ports of nodes of the
\* graph.
C1_NoDanglingEdge ==
    Returned =>
        \A e \in 1..Len(conv.edges) :
            /\ \A k \in DOMAIN conv.edges[e].sources : PortInGraph(conv, conv.edges[e].sources[k])
            /\ \A k \in DOMAIN conv.edges[e].targets : PortInGraph(conv, conv.edges[e].targets[k])

\* C1 witness: a graph built from a document with a duplicated module name and a
\* repeated interface declaration, holding a connection edge and an external edge.
C1_Witness ==
    /\ Returned
    /\ \E a, b \in DOMAIN doc.modules : a /= b /\ doc.modules[a].name = doc.modules[b].name
    /\ \E a, b \in DOMAIN doc.interfaces :
        a /= b /\ doc.interfaces[a].internal = doc.interfaces[b].internal
    /\ \E e \in DOMAIN conv.edges : IsConnectionEdge(conv.edges[e])
    /\ \E e \in DOMAIN conv.edges : IsExternalEdge(conv.edges[e])

\* C7: every connection edge of the returned graph has isVector true exactly
\* when the raw connection kind contains 'avalon' or the resolved type contains
\* 'axi', both ignoring case.
C7_VectorFlag ==
    Returned =>
        \A e \in 1..Len(conv.edges) :
            IsConnectionEdge(conv.edges[e]) =>
                LET raw == doc.connections[conv.edges[e].id[2] + 1].kind
                    rawHasAvalon == raw /= NULL /\ includes(toLowerCase(raw), <<"a","v","a","l","o","n">>)
                    typeHasAxi == includes(toLowerCase(conv.edges[e].type), <<"a","x","i">>)
                IN  conv.edges[e].isVector <=> (rawHasAvalon \/ typeHasAxi)

\* C7 witness: the returned graph holds a vector edge whose kind is absent (the
\* flag comes from the resolved type) and a connection edge that is no vector.
C7_Witness ==
    /\ Returned
    /\ \E e \in DOMAIN conv.edges :
        /\ IsConnectionEdge(conv.edges[e])
        /\ conv.edges[e].isVector
        /\ doc.connections[conv.edges[e].id[2] + 1].kind = NULL
    /\ \E e \in DOMAIN conv.edges :
        IsConnectionEdge(conv.edges[e]) /\ ~conv.edges[e].isVector

InSeq(x, seq) == \E k \in DOMAIN seq : seq[k] = x

\* C8: every interface recorded as unconnected is in exactly one group: the
\* output group when its declared direction is 'start', the input group
\* otherwise, also when no direction is declared; no record is lost or doubled.
C8_GroupsPartition ==
    cpc \in {"heights", "done"} =>
        /\ \A k \in 1..Len(conv.unconnectedInterfacePorts) :
            LET r == conv.unconnectedInterfacePorts[k]
                declared == doc.interfaces[conv.unconnectedFrom[k]].dir
            IN  IF declared = <<"start">>
                THEN InSeq(r, conv.externalOutputs) /\ ~InSeq(r, conv.externalInputs)
                ELSE InSeq(r, conv.externalInputs) /\ ~InSeq(r, conv.externalOutputs)
        /\ Len(conv.externalInputs) + Len(conv.externalOutputs)
            = Len(conv.unconnectedInterfacePorts)

\* C8 witness: unconnected interfaces declared 'start', declared 'Start' and
\* declared with no direction were grouped.
C8_Witness ==
    /\ Returned
    /\ \E k \in DOMAIN conv.unconnectedFrom : doc.interfaces[conv.unconnectedFrom[k]].dir = NULL
    /\ \E k \in DOMAIN conv.unconnectedFrom : doc.interfaces[conv.unconnectedFrom[k]].dir = <<"start">>
    /\ \E k \in DOMAIN conv.unconnectedFrom : doc.interfaces[conv.unconnectedFrom[k]].dir = <<"Start">>

AggregatorPresent(id) == \E node \in NodesOf(conv) : node.id = <<id>>

\* the ports with this id on the nodes with that id, as (node, port) positions
PortsWithId(nodeId, portId) ==
    { <<n, p>> \in (DOMAIN conv.children) \X (1..(2 * MaxRecords)) :
        /\ conv.children[n].id = <<nodeId>>
        /\ p \in DOMAIN conv.children[n].ports
        /\ conv.children[n].ports[p].id = portId }

ExternalEdgesJoining(src, tgt) ==
    { e \in DOMAIN conv.edges :
        /\ IsExternalEdge(conv.edges[e])
        /\ conv.edges[e].sources = <<src>>
        /\ conv.edges[e].targets = <<tgt>> }

\* C9: an aggregator node is in the returned graph exactly when its group is not
\* empty, and each unconnected interface has exactly one aggregator port and
\* exactly one 'external' edge joining that port to the interface's own port:
\* aggregator port to interface port for the input group, the reverse for the
\* output group.
C9_OnePortOneEdgePerInterface ==
    Returned =>
        /\ AggregatorPresent(EXTERNAL_INPUT) <=> Len(conv.externalInputs) > 0
        /\ AggregatorPresent(EXTERNAL_OUTPUT) <=> Len(conv.externalOutputs) > 0
        /\ \A k \in 1..Len(conv.externalInputs) :
            LET real == conv.externalInputs[k].portId
                agg == <<EXTERNAL_INPUT>> \o real
            IN  /\ Cardinality(PortsWithId(EXTERNAL_INPUT, agg)) = 1
                /\ Cardinality(ExternalEdgesJoining(agg, real)) = 1
        /\ \A k \in 1..Len(conv.externalOutputs) :
            LET real == conv.externalOutputs[k].portId
                agg == <<EXTERNAL_OUTPUT>> \o real
            IN  /\ Cardinality(PortsWithId(EXTERNAL_OUTPUT, agg)) = 1
                /\ Cardinality(ExternalEdgesJoining(real, agg)) = 1

\* C10: no node of the returned graph, module node or aggregator node, holds two
\* ports with the same id.
C10_PortIdsUnique ==
    Returned =>
        \A node \in NodesOf(conv) :
            \A p, q \in DOMAIN node.ports : node.ports[p].id = node.ports[q].id => p = q

ModuleNodes(st) == {node \in NodesOf(st) : node.kind /= <<"external">>}

ConnectionEdges(st) == {st.edges[e] : e \in {x \in DOMAIN st.edges : IsConnectionEdge(st.edges[x])}}

IsSourceEndpoint(id) == \E edge \in ConnectionEdges(conv) : edge.sources[1] = id

IsTargetEndpoint(id) == \E edge \in ConnectionEdges(conv) : edge.targets[1] = id

\* the port is not an endpoint of a connection and the first declaration of
\* the interface, the one that makes the port, says 'start'
CreatedFromStart(id) ==
    /\ ~IsSourceEndpoint(id)
    /\ ~IsTargetEndpoint(id)
    /\ \E k \in DOMAIN doc.interfaces :
        /\ doc.interfaces[k].internal = id
        /\ doc.interfaces[k].dir = <<"start">>
        /\ \A j \in 1..(k - 1) : doc.interfaces[j].internal /= id

SidesOf(id) ==
    {node.ports[p].side : <<node, p>> \in {<<n, q>> \in ModuleNodes(conv) \X (1..(2 * MaxRecords)) :
                                            q \in DOMAIN n.ports /\ n.ports[q].id = id}}

\* C11: in the returned graph a port of a module node is EAST when it is the
\* source endpoint of a connection or was created from an interface declared
\* with direction 'start', and WEST otherwise; the source port of every connection
\* edge is EAST and its target port is WEST.
C11_SideConvention ==
    Returned =>
        /\ \A node \in ModuleNodes(conv) : \A p \in DOMAIN node.ports :
            node.ports[p].side =
                IF IsSourceEndpoint(node.ports[p].id) \/ CreatedFromStart(node.ports[p].id)
                THEN "EAST" ELSE "WEST"
        /\ \A edge \in ConnectionEdges(conv) :
            /\ SidesOf(edge.sources[1]) = {"EAST"}
            /\ SidesOf(edge.targets[1]) = {"WEST"}

\* lines 117-125: the reference has no module segment or names no node of the lookup
Unresolvable(ref, moduleMap) ==
    LET r == OrElseRef(ref, EmptyRef)
    IN  Seg1(r) = "" \/ <<Seg1(r)>> \notin DOMAIN moduleMap

DropsWhole(conn, moduleMap) == Unresolvable(conn.start, moduleMap) \/ Unresolvable(conn.end, moduleMap)

\* C12: the step that handles a connection whose start or end reference has no
\* module segment or names an unknown module leaves the nodes with their ports,
\* the edges and the set of connected port ids as they were, and moves on to
\* the next record.
C12_DroppedWhole ==
    [][ (/\ cpc = "connections"
         /\ conv.i <= Len(doc.connections)
         /\ DropsWhole(doc.connections[conv.i], conv.moduleMap))
        => /\ conv'.children = conv.children
           /\ conv'.edges = conv.edges
           /\ conv'.connectedPortIds = conv.connectedPortIds
           /\ conv'.i = conv.i + 1
           /\ cpc' = "connections" ]_vars

\* the builder has returned, an unresolvable connection came before a
\* resolvable one, and the later one has its edge and its marks
C12_Witness ==
    /\ Returned
    /\ \E k, j \in DOMAIN doc.connections :
        /\ k < j
        /\ DropsWhole(doc.connections[k], conv.moduleMap)
        /\ ~DropsWhole(doc.connections[j], conv.moduleMap)
        /\ \E e \in DOMAIN conv.edges : conv.edges[e].id = <<"edge", j - 1>>
        /\ conv.connectedPortIds /= {}

\* C13: every module node of the returned graph is max(150, portCount*45 + 90)
\* high, portCount being the number of ports it holds when the builder returns.
C13_ModuleHeight ==
    Returned =>
        \A node \in ModuleNodes(conv) :
            node.height = (IF Len(node.ports) * 45 + 90 > 150 THEN Len(node.ports) * 45 + 90 ELSE 150)

\* returned module nodes with no port (150), and with three ports (225)
C13_Witness ==
    /\ Returned
    /\ \E node \in ModuleNodes(conv) : Len(node.ports) = 0 /\ node.height = 150
    /\ \E node \in ModuleNodes(conv) : Len(node.ports) = 3 /\ node.height = 225

AggregatorNodes(st) == {node \in NodesOf(st) : node.kind = <<"external">>}

GroupOf(node) ==
    IF node.id = <<EXTERNAL_INPUT>> THEN conv.externalInputs ELSE conv.externalOutputs

\* C14: each aggregator node of the returned graph is max(150, portCount*30 + 80)
\* high, portCount being the number of unconnected interfaces of its group.
C14_AggregatorHeight ==
    Returned =>
        \A node \in AggregatorNodes(conv) :
            node.height = (IF Len(GroupOf(node)) * 30 + 80 > 150
                           THEN Len(GroupOf(node)) * 30 + 80 ELSE 150)

-----------------------------------------------------------------------------
(* Claims about the schematic router, checked under SpecRoute *)

\* the edge layer has been rendered
RouteDone == rpc = "drawn"

\* indices of the edges drawn by the schematic router
RoutedEdges == {k \in 1..Len(routeEdges) : Routed(routeAnchors, routeEdges[k])}

SourceAnchor(k) == routeAnchors[routeEdges[k].sources[1]]

TargetAnchor(k) == routeAnchors[routeEdges[k].targets[1]]

\* indices of the edges that leave the source port of edge k
Siblings(k) == {j \in 1..Len(routeEdges) : routeEdges[j].sources[1] = routeEdges[k].sources[1]}

\* the source anchor displaced 40 units in +x
ExitStubEast(k) == Point(SourceAnchor(k).x + 40 * Scale, SourceAnchor(k).y)

JunctionAt(k, p) ==
    \E j \in 1..Len(routeDrawn[k].junctions) : routeDrawn[k].junctions[j] = p

\* two routed edges from one EAST source port to two distinct WEST target ports
EastFanPair(i, j) ==
    /\ i \in RoutedEdges /\ j \in RoutedEdges /\ i /= j
    /\ routeEdges[i].sources[1] = routeEdges[j].sources[1]
    /\ routeEdges[i].targets[1] /= routeEdges[j].targets[1]
    /\ SourceAnchor(i).side = "EAST"
    /\ TargetAnchor(i).side = "WEST" /\ TargetAnchor(j).side = "WEST"

\* C15, as stated: when two edges share one EAST-side source port and go to
\* two distinct WEST-side target ports, both edges carry a junction marker at
\* the shared exit stub point.
C15_BothAtStub ==
    RouteDone =>
        \A i, j \in 1..Len(routeEdges) :
            EastFanPair(i, j) => JunctionAt(i, ExitStubEast(i)) /\ JunctionAt(j, ExitStubEast(j))

\* C15, amended: of the edges that share such a source port, the first in
\* graph order carries the junction marker at the shared exit stub point and
\* no other edge of the port carries one there.
C15_FirstAtStub ==
    RouteDone =>
        \A i, j \in 1..Len(routeEdges) :
            EastFanPair(i, j) =>
                \A k \in {i, j} :
                    JunctionAt(k, ExitStubEast(k)) <=> (\A m \in Siblings(k) : k <= m)

\* two such edges drawn, the first of the port and a later one
C15_Witness ==
    /\ RouteDone
    /\ \E i, j \in 1..Len(routeEdges) :
            /\ EastFanPair(i, j)
            /\ \A m \in Siblings(i) : i <= m
            /\ JunctionAt(i, ExitStubEast(i))
            /\ ~JunctionAt(j, ExitStubEast(j))

\* consecutive vertices differ in at most one coordinate
AxisAligned(path) ==
    \A n \in 1..(Len(path) - 1) : path[n].x = path[n + 1].x \/ path[n].y = path[n + 1].y

\* the channel offset renderEdge reads for edge k
ChannelOf(k) == WireChannels([edges |-> routeEdges], routeAnchors)[routeEdges[k].id]

\* C16: for every edge whose two anchors are found, whatever the two sides,
\* the relative position and the channel offset, the polyline starts at the
\* source anchor, ends at the target anchor and has only horizontal and
\* vertical segments.
C16_OrthogonalPath ==
    RouteDone =>
        \A k \in RoutedEdges :
            LET path == routeDrawn[k].path
            IN  /\ Len(path) >= 2
                /\ path[1] = Point(SourceAnchor(k).x, SourceAnchor(k).y)
                /\ path[Len(path)] = Point(TargetAnchor(k).x, TargetAnchor(k).y)
                /\ AxisAligned(path)

\* a drawn edge from a SOUTH port to an EAST port behind it, in the last channel
C16_Witness ==
    /\ RouteDone
    /\ \E k \in RoutedEdges :
            /\ SourceAnchor(k).side = "SOUTH"
            /\ TargetAnchor(k).side = "EAST"
            /\ TargetAnchor(k).x < SourceAnchor(k).x
            /\ ChannelOf(k) = 45
            /\ Len(routeDrawn[k].path) = 6

\* the source port of edge k has edges to more than one distinct target port
FansOut(k) == Cardinality({routeEdges[j].targets[1] : j \in Siblings(k)}) > 1

\* the first bend of edge k after its exit stub
JogPoint(k) == routeDrawn[k].path[3]

\* C20: for every source port with edges to more than one distinct target
\* port, the first edge of the group has a junction at the exit stub point and
\* every edge of the group has a junction at its own jog point, whatever the
\* sides and the relative position of its anchors; an edge whose source port
\* reaches one distinct target has no junction.
C20_FanOutJunctions ==
    RouteDone =>
        \A k \in RoutedEdges :
            IF FansOut(k)
            THEN /\ (\A m \in Siblings(k) : k <= m) =>
                        JunctionAt(k, StubEnd(SourceAnchor(k), 40 * Scale))
                 /\ JunctionAt(k, JogPoint(k))
            ELSE routeDrawn[k].junctions = <<>>

\* the stub point of an anchor: 40 units along the outward normal of its side
Outward(p) ==
    Point(p.x + (IF p.side = "EAST" THEN 40 * Scale ELSE IF p.side = "WEST" THEN 0 - 40 * Scale ELSE 0),
          p.y + (IF p.side = "SOUTH" THEN 40 * Scale ELSE IF p.side = "NORTH" THEN 0 - 40 * Scale ELSE 0))

\* the anchor itself as a vertex
AnchorPoint(p) == Point(p.x, p.y)

\* the single-jog shape: one vertical segment at x joining the two stub heights
SingleJog(k, x) ==
    LET s == Outward(SourceAnchor(k))
        t == Outward(TargetAnchor(k))
    IN  routeDrawn[k].path =
            << AnchorPoint(SourceAnchor(k)), s, Point(x, s.y), Point(x, t.y), t,
               AnchorPoint(TargetAnchor(k)) >>

\* the loop-around shape: out by reach past the source stub, across at height
\* y, back to the target stub from reach on its far side
LoopAround(k, reach, y) ==
    LET s == Outward(SourceAnchor(k))
        t == Outward(TargetAnchor(k))
    IN  routeDrawn[k].path =
            << AnchorPoint(SourceAnchor(k)), s, Point(s.x + reach, s.y), Point(s.x + reach, y),
               Point(t.x - reach, y), Point(t.x - reach, t.y), t, AnchorPoint(TargetAnchor(k)) >>

EastToWest(k) == SourceAnchor(k).side = "EAST" /\ TargetAnchor(k).side = "WEST"

C22_Stubs ==
    RouteDone =>
        \A k \in RoutedEdges :
            LET path == routeDrawn[k].path
            IN  /\ Len(path) >= 4
                /\ path[1] = AnchorPoint(SourceAnchor(k))
                /\ path[2] = Outward(SourceAnchor(k))
                /\ path[Len(path) - 1] = Outward(TargetAnchor(k))
                /\ path[Len(path)] = AnchorPoint(TargetAnchor(k))

\* an edge drawn from a NORTH port to a SOUTH port, and one between two EAST ports
C22_Witness ==
    /\ RouteDone
    /\ \E i, j \in RoutedEdges :
            /\ SourceAnchor(i).side = "NORTH" /\ TargetAnchor(i).side = "SOUTH"
            /\ routeDrawn[i].path[2].y = SourceAnchor(i).y - 40 * Scale
            /\ SourceAnchor(j).side = "EAST" /\ TargetAnchor(j).side = "EAST"
            /\ routeDrawn[j].path[Len(routeDrawn[j].path) - 1].x = TargetAnchor(j).x + 40 * Scale

\* how many edges before position k have both anchors
RoutedBefore(k) == Cardinality({j \in RoutedEdges : j < k})

\* C23: channel offsets go out in edge-list order as 0, 15, 30, 45, 0, ...:
\* the edge that is number n (from 0) among the edges with both anchors gets
\* 15 * (n mod 4), the offset held for the next edge wraps the same way, and
\* an edge with a missing anchor has no channel and uses none up.
C23_Channels ==
    RouteDone =>
        LET graph == [edges |-> routeEdges]
            channels == WireChannels(graph, routeAnchors)
        IN  /\ \A k \in 1..Len(routeEdges) :
                    IF k \in RoutedEdges
                    THEN /\ routeEdges[k].id \in DOMAIN channels
                         /\ channels[routeEdges[k].id] = 15 * (RoutedBefore(k) % 4)
                         /\ channels[routeEdges[k].id] \in {0, 15, 30, 45}
                    ELSE routeEdges[k].id \notin DOMAIN channels
            /\ ChannelsAfter(graph, routeAnchors, Len(routeEdges)).channelOffset
                    = 15 * (Cardinality(RoutedEdges) % 4)

\* four edges, the second without an anchor for its target, the fourth in
\* channel 30; and four drawn edges, after which the offset is back at 0
C23_Witness ==
    /\ RouteDone
    /\ Len(routeEdges) = 4
    /\ \/ /\ RoutedEdges = {1, 3, 4}
          /\ ChannelOf(4) = 30
       \/ /\ RoutedEdges = {1, 2, 3, 4}
          /\ ChannelOf(4) = 45
          /\ ChannelsAfter([edges |-> routeEdges], routeAnchors, 4).channelOffset = 0

-----------------------------------------------------------------------------
(* Claims about the port layout, checked under SpecPlace *)

PlaceDone == ppc = "placed"

\* the node whose ports were placed
PlacedNode == portNode[1]

\* where the glyph of the port at index k sits in the frame of its node
GlyphOffset(k) == RenderPortRect(PlacedNode.ports[k], PlacedNode, portPlaced)

\* v lies in [inset, dimension - portSize - inset], inset = 2
InClampRange(v, dimension, portSize) ==
    2 * Scale <= v /\ v <= (dimension - portSize - 2) * Scale

\* the range is not empty
Fits(dimension, portSize) == dimension - portSize - 2 >= 2

\* C24, as stated: for every port, on each axis the glyph offset relative to
\* its node lies in [inset, dimension - portSize - inset], inset = 2, for
\* every node size, port size, side and number of ports on the side.
C24_AlwaysInRange ==
    PlaceDone =>
        \A k \in 1..Len(PlacedNode.ports) :
            LET port == PlacedNode.ports[k]
            IN  /\ InClampRange(GlyphOffset(k).x, PlacedNode.width, port.width)
                /\ InClampRange(GlyphOffset(k).y, PlacedNode.height, port.height)

\* C24, amended: on each axis where the port fits (dimension - portSize -
\* inset >= inset) the glyph offset lies in [inset, dimension - portSize -
\* inset]; on an axis where it does not fit the offset is inset.
C24_InRangeWhenFits ==
    PlaceDone =>
        \A k \in 1..Len(PlacedNode.ports) :
            LET port == PlacedNode.ports[k]
                at == GlyphOffset(k)
            IN  /\ IF Fits(PlacedNode.width, port.width)
                   THEN InClampRange(at.x, PlacedNode.width, port.width)
                   ELSE at.x = 2 * Scale
                /\ IF Fits(PlacedNode.height, port.height)
                   THEN InClampRange(at.y, PlacedNode.height, port.height)
                   ELSE at.y = 2 * Scale

\* three ports placed on one side: one that fits and sits strictly inside its
\* range, one too tall for the node, and one held back by the far limit of
\* its range
C24_Witness ==
    /\ PlaceDone
    /\ Len(PlacedNode.ports) = 3
    /\ \A k \in 1..3 : PlacedNode.ports[k].side = "WEST"
    /\ PlacedNode.ports[1].height = 22
    /\ GlyphOffset(1).y > 2 * Scale
    /\ GlyphOffset(1).y < (PlacedNode.height - 22 - 2) * Scale
    /\ PlacedNode.ports[2].height = 400
    /\ GlyphOffset(2).y = 2 * Scale
    /\ PlacedNode.ports[3].height = 200
    /\ Fits(PlacedNode.height, 200)
    /\ GlyphOffset(3).y = (PlacedNode.height - 200 - 2) * Scale

-----------------------------------------------------------------------------
(* Claims about the drawn graph, checked under SpecApp *)

Drawn == layoutedGraph /= NoGraph

DrawnNodes == {layoutedGraph[1].children[n] : n \in 1..Len(layoutedGraph[1].children)}

DrawnPorts(node) == {node.ports[k] : k \in 1..Len(node.ports)}

DrawnEdges == {layoutedGraph[1].edges[k] : k \in 1..Len(layoutedGraph[1].edges)}

Anchor(positions, id) == Point(positions[id].x, positions[id].y)

Last(seq) == seq[Len(seq)]

\* the drawn paths that leave or reach the port start or end at the point
PathsMeetAt(port, point) ==
    \A edge \in DrawnEdges :
        Routed(portPositions, edge) =>
            LET path == RenderEdge(layoutedGraph[1], portPositions, edge).path
            IN  /\ edge.sources[1] = port.id => Head(path) = point
                /\ edge.targets[1] = port.id => Last(path) = point

\* C2: whatever rebuilds and drags have happened, every port of every drawn
\* top-level node has an entry in the position map, the centre of its glyph
\* is the anchor in that entry, every routed path attached to the port
\* starts or ends at that same point, and computing the position map again
\* from the drawn graph gives the map the renderer holds.
C2_GlyphCentreIsAnchor ==
    Drawn =>
        /\ portPositions = ComputePortPositions(layoutedGraph)
        /\ \A node \in DrawnNodes : \A port \in DrawnPorts(node) :
            /\ port.id \in DOMAIN portPositions
            /\ GlyphCentre(port, node, portPositions) = Anchor(portPositions, port.id)
            /\ PathsMeetAt(port, GlyphCentre(port, node, portPositions))

\* a graph drawn after a rebuild that put a port on the north side of a
\* node, with a drag since, a routed edge on that port and another node
\* holding several ports on one side
C2_Witness ==
    /\ Drawn
    /\ rebuilds > 0
    /\ moves > 0
    /\ \E node \in DrawnNodes : \E port \in DrawnPorts(node) :
        /\ port.side = "NORTH"
        /\ NodeX(node) < 0
        /\ \E edge \in DrawnEdges :
            /\ Routed(portPositions, edge)
            /\ port.id \in {edge.sources[1], edge.targets[1]}
    /\ \E node \in DrawnNodes : Len(PortsBySide(node, "WEST")) > 1

\* the layout call at position k of the calls in flight settles in this step
Settles(k) == k \in 1..Len(pending) /\ pending' = Remove(pending, k)

\* a rebuild is triggered in this step
Triggered == Len(pending') = Len(pending) + 1

\* C17: a rebuild triggered while a layout call is in flight cancels nothing:
\* the calls in flight stay in flight, each settles on its own, and a call
\* that resolves replaces the displayed graph with its result whether or not
\* a newer call was triggered or has resolved before it.
C17_LastResolvedWins ==
    [][ /\ Triggered => SubSeq(pending', 1, Len(pending)) = pending
        /\ pending' /= pending => Triggered \/ \E k \in 1..Len(pending) : Settles(k)
        /\ \A k \in 1..Len(pending) :
                Settles(k) /\ error' = NULL =>
                    \E placement \in Placements :
                        layoutedGraph' = <<LayoutResult(pending[k], placement)>> ]_vars

\* nothing in flight, no error, and a node the user has hidden is on display:
\* the rebuild triggered before the deletion resolved after the one the
\* deletion triggered
C17_Witness ==
    /\ originalGraph /= NoGraph
    /\ pending = <<>>
    /\ error = NULL
    /\ ~loading
    /\ hiddenNodeIds /= {}
    /\ hiddenNodeIds \subseteq ChildIds(layoutedGraph)

\* C18: when elk.layout rejects, the displayed graph and its port anchors are
\* left as they were, the error becomes "Layout failed: " followed by the
\* failure text, the rejected call leaves the calls in flight and no call is
\* added in its place; the error is raised by nothing else, and the diagram
\* is replaced only by a layout call that resolves, by a drag of the user or
\* by an empty document.
C18_RejectKeepsDiagram ==
    [][ /\ error' /= NULL /\ error' /= error =>
            /\ \E k \in 1..Len(pending) : Settles(k)
            /\ error' = <<"Layout failed: ", "elk">>
            /\ ~loading'
            /\ UNCHANGED <<layoutedGraph, portPositions, originalGraph>>
        /\ layoutedGraph' /= layoutedGraph =>
            \/ \E k \in 1..Len(pending) : Settles(k) /\ error' = error
            \/ moves' /= moves
            \/ originalGraph' = NoGraph ]_vars

\* the deletion's layout was rejected: the error is shown over the diagram
\* that still holds the deleted node
C18_Witness ==
    /\ error = <<"Layout failed: ", "elk">>
    /\ pending = <<>>
    /\ ~loading
    /\ loads = 1
    /\ hiddenNodeIds /= {}
    /\ hiddenNodeIds \subseteq ChildIds(layoutedGraph)

\* C19: a rebuild works on a copy: no step other than the arrival of a
\* document changes the canonical graph, so the canonical graph is at all
\* times the graph convertQsysToElk returned for the document last loaded.
C19_CanonicalUntouched ==
    [][ /\ loads' = loads => originalGraph' = originalGraph
        /\ originalGraph' /= NoGraph => originalGraph'[1] \in AppGraphs ]_vars

\* a deletion has been rebuilt and drawn: the diagram lacks the hidden node,
\* the canonical graph still holds it
C19_Witness ==
    /\ originalGraph /= NoGraph
    /\ layoutedGraph /= NoGraph
    /\ pending = <<>>
    /\ rebuilds = 1
    /\ hiddenNodeIds /= {}
    /\ hiddenNodeIds \cap ChildIds(layoutedGraph) = {}
    /\ hiddenNodeIds \subseteq ChildIds(originalGraph)

\* the graph of the layout call added in this step
Handed == pending'[Len(pending')]

\* ids of the ports on the nodes of a graph
PortIdsOn(g) ==
    UNION { {g.children[n].ports[k].id : k \in 1..Len(g.children[n].ports)}
            : n \in 1..Len(g.children) }

\* the node a port id names: the part before its first dot
OwnerOf(portId) == <<portId[1]>>

PortIdsOf(node) == {node.ports[k].id : k \in 1..Len(node.ports)}

\* node after is node before with its origin moved by (dx, dy), all else equal
Translated(before, after, dx, dy) ==
    /\ NodeX(after) = NodeX(before) + dx
    /\ NodeY(after) = NodeY(before) + dy
    /\ after.id = before.id
    /\ after.width = before.width
    /\ after.height = before.height
    /\ after.ports = before.ports

\* C26: a move of the node id by (dx, dy) adds (dx, dy) to the origin of that
\* node in the displayed graph and leaves every other node, every size and
\* port list, every edge and the canonical graph as they were; every anchor
\* of a port of the moved node shifts by (dx, dy) and no other anchor changes.
C26_MoveTranslatesOneNode ==
    [][ moves' /= moves =>
            \E id \in ChildIds(layoutedGraph), d \in Deltas :
                LET before == layoutedGraph[1]
                    after == layoutedGraph'[1]
                IN  /\ originalGraph' = originalGraph
                    /\ after.edges = before.edges
                    /\ Len(after.children) = Len(before.children)
                    /\ DOMAIN portPositions' = DOMAIN portPositions
                    /\ \A n \in 1..Len(before.children) :
                        IF before.children[n].id = id
                        THEN /\ Translated(before.children[n], after.children[n], d[1], d[2])
                             /\ \A pid \in PortIdsOf(before.children[n]) :
                                    portPositions'[pid] =
                                        [portPositions[pid] EXCEPT !.x = @ + d[1] * Scale,
                                                                   !.y = @ + d[2] * Scale]
                        ELSE /\ after.children[n] = before.children[n]
                             /\ \A pid \in PortIdsOf(before.children[n]) :
                                    portPositions'[pid] = portPositions[pid] ]_vars

\* a node with ports has been dragged left of the canvas origin beside a node
\* with ports that stayed
C26_Witness ==
    /\ moves = 1
    /\ layoutedGraph /= NoGraph
    /\ \E i, j \in 1..Len(layoutedGraph[1].children) :
            /\ NodeX(layoutedGraph[1].children[i]) < 0
            /\ NodeX(layoutedGraph[1].children[j]) >= 0
            /\ layoutedGraph[1].children[i].ports /= <<>>
            /\ layoutedGraph[1].children[j].ports /= <<>>
            /\ \A pid \in PortIdsOf(layoutedGraph[1].children[i]) :
                    portPositions[pid].x < 360 * Scale

\* C27: with every kind filter at its initial setting and no node hidden, the
\* rebuild that follows the loading of a document hands every edge of the
\* built graph, connection edges and external edges alike, to elk.layout,
\* whatever the type strings of the edges are.
C27_LoadKeepsEveryEdge ==
    [][ /\ loads' /= loads
        /\ Triggered
        /\ \A kind \in CONNECTION_KINDS : visibleKinds'[kind]
        /\ hiddenNodeIds' = {}
        => Handed.edges = originalGraph'[1].edges ]_vars

\* C28: whenever at least one layout call is in flight the loading flag is
\* true, under every interleaving of overlapping rebuilds.
C28_LoadingWhileInFlight == pending /= <<>> => loading

\* C29: in every reachable state a displayed graph implies a loaded canonical
\* graph, also when an empty update clears both while a layout call is in
\* flight.
C29_DisplayedImpliesLoaded == layoutedGraph /= NoGraph => originalGraph /= NoGraph

\* what the schematic router draws for the routed edges of a displayed graph
RoutedPaths(slot, positions) ==
    IF slot = NoGraph THEN <<>>
    ELSE [k \in 1..Len(slot[1].edges) |->
            IF Routed(positions, slot[1].edges[k])
            THEN RenderEdge(slot[1], positions, slot[1].edges[k])
            ELSE [path |-> <<>>, junctions |-> <<>>]]

\* C30: after any node selections, edge selections, background clicks and
\* closings of the inspector at most one of the selected node id and the
\* selected edge id is set, and none of these actions changes the displayed
\* graph, the canonical graph, a port anchor or a routed path.
C30_SelectionOnly ==
    [][ /\ selectedNodeId' = NULL \/ selectedEdgeId' = NULL
        /\ selectionVars' /= selectionVars =>
            /\ layoutedGraph' = layoutedGraph
            /\ originalGraph' = originalGraph
            /\ portPositions' = portPositions
            /\ RoutedPaths(layoutedGraph', portPositions') = RoutedPaths(layoutedGraph, portPositions)
            /\ pending' = pending ]_vars

\* an edge of the diagram is selected and no node is
C30_Witness ==
    /\ layoutedGraph /= NoGraph
    /\ selectedEdgeId /= NULL
    /\ selectedNodeId = NULL
    /\ \E k \in 1..Len(layoutedGraph[1].edges) : layoutedGraph[1].edges[k].id = selectedEdgeId

====
